---------------------------- MODULE Spec2Model ----------------------------
(***************************************************************************)
(* Model of the timed-launch portal of the "rituals" scene                 *)
(* (src/src/index.ts): the window evaluator shouldPortalBeActive, the      *)
(* construction of the portal in main(), and the per-frame countdown       *)
(* system that activates / deactivates the portal.                         *)
(*                                                                         *)
(* Conventions                                                             *)
(*  - Times are milliseconds.  Date.now() is the wall clock: it is read    *)
(*    afresh at every call and is not monotonic, so each read is an input  *)
(*    of the action that performs it.                                      *)
(*  - The frame delta dt and checkInterval are seconds in the source       *)
(*    (fractions of a second for dt); both are carried in milliseconds     *)
(*    here so that they stay integers.                                     *)
(*  - Positions are decimetres (168.8 m = 1688), so that the half extents  *)
(*    of the zones stay integers.                                          *)
(*  - A Transform scale {x: k, y: k, z: k} is the integer k, Vector3.Zero  *)
(*    is 0.                                                                *)
(***************************************************************************)
EXTENDS Integers, Sequences, FiniteSets, TLC

VARIABLES
    \* the time window of index.ts:19-31 (master shutdown, start, end),
    \* fixed at load
    ROCKSCAPE_PORTAL_SHUTDOWN,
    LAUNCH_START_TIME,
    LAUNCH_END_TIME,
    \* module-level state of index.ts:129-133
    isPortalActive,
    countdownText,
    timeSinceLastCheck,
    triggerAdded,
    instantTeleportCheckActive,
    \* entities
    portalScale,            \* Transform(portalScapeTopRotated).scale
    triggerZoneScale,       \* Transform(triggerZone).scale
    countdownCreated,       \* countdownTimer has its Transform / TextShape
    countdownScale,         \* Transform(countdownTimer).scale
    textShapeText,          \* TextShape(countdownTimer).text
    triggerListeners,       \* enter-callbacks registered on triggerZone, in order
    playerPos,              \* Transform(engine.PlayerEntity).position
    \* control
    pc,                     \* "load" before main() has run, "running" after
    systemInstalled,        \* the countdown system was added (index.ts:1343,1424)
    instantTimerPending,    \* the 2000 ms setTimeout of index.ts:1528 is pending
    \* observation
    frame,                  \* locals of the last evaluation (main or system tick)
    constructedActive,      \* main() found the window open
    activations,            \* INACTIVE -> ACTIVE transitions made by the system
    skippedFrames,          \* frames skipped since the system last acted
    \* one call of formatTimeRemaining (index.ts:136)
    argMilliseconds,        \* its first argument
    argIsBeforeStart,       \* its second argument
    formatted,              \* the text it returned, <<>> before the call
    \* one evaluation of the containment tests of index.ts:1277-1304, 1496-1516
    zoneTest,               \* their locals, kind "none" before the evaluation
    \* the camera system's module-level state, cameraSystem (part_004:20-34)
    virtualCameraEntity,    \* MainCamera(engine.CameraEntity).virtualCameraEntity
    activeCinematicCamera,
    isAnimating,
    elapsed,                \* Date.now() - animationStartTime
    animationDuration,
    animationType,
    treeCameraPhase,
    treeTriggerUsed,
    npcTriggerUsed,
    returnElapsed,          \* Date.now() - returnStartTime
    sinceTreeStart,         \* time since the tree camera's startCinematic
    \* locals of createCameraTriggers (part_004:530-652)
    treeCameraActive,
    portalCameraActive,
    npcCameraActive,
    runningCameraActive,
    inPortalZone,           \* the portal trigger box holds the player
    \* the dialogs of the tree and of the NPC (dialogs, npcSystem)
    secondWarningShown,
    treeDialog,             \* treeWarningDialog: "closed", or open
                            \* "beforeAltar" (pages 1-2) or "afterAltar" (3-5)
    welcomeDialogOpen,      \* welcomeDialog is shown
    \* the kersplat fall zones, index.ts:1187-1338
    kersplatCooldown,
    insideKersplat,         \* zones whose trigger box holds the player
    moveRequest,            \* destination of a movePlayerTo not yet applied
    respawns,               \* the respawn actions made, in order
    sinceRespawn,           \* time since the last respawn action
    \* utils.timers
    timers,                 \* pending setTimeout callbacks, in order of creation
    \* the NFT burn module, burnModule/nftBurner.ts
    testMode,               \* config.testMode
    burnInitialised,        \* initNFTBurnSystem has run
    burnPc,                 \* the await burnNFT is suspended at
    onStatusChange,         \* the call was given a status callback
    statuses,               \* what the call has passed to onStatusChange
    addressRequests,        \* calls of getUserAddress
    providersCreated,       \* calls of createEthereumProvider
    sent,                   \* methods passed to provider.sendAsync, in order
    pollsStarted,           \* calls of pollForNewWearable
    burnResult,             \* what the last call returned
    delayElapsed,           \* Date.now() - startTime of the pending delay
    burnClock,              \* Date.now()
    burns,                  \* calls of burnNFT made
    \* waitForTransactionConfirmation, nftBurner.ts:961-990
    attempt,                \* its loop variable
    receiptQueries,         \* eth_getTransactionReceipt calls it has made
    lastReceipt,            \* what the last of them answered
    confirmed,              \* what it returned
    \* the collection initialisers, nftBurner.ts:103-335
    metaCall,               \* the call made: its arguments and what the
                            \* remote sources answer to it
    metaPc,                 \* "idle" before the call, "done" after it
    collections,            \* the CollectionInfo list it returned
    \* the name gate of main(), index.ts:979-1014
    playerHasNameApproved,
    nameCheckPending,       \* checkCurrentPlayerHasName calls not yet resolved
    \* nameGate.ts
    nameOwnershipCache,     \* lower-cased address -> the value set, or
                            \* "absent"
    nameChecks,             \* the checkDecentralandNameOwnership calls made
    onceCached,             \* per address, the first value cached for it
                            \* since the cache was last cleared
    \* the burn modal of nftBurner.ts:1636-1663 and the click flows
    modal,                  \* the module-level UI state, one field each
    burnTasks,              \* the async calls suspended at an await
    clicks,                 \* pointer-down events handled so far
    enableCollectionSelection   \* the test of nftBurner.ts:1320

config == <<ROCKSCAPE_PORTAL_SHUTDOWN, LAUNCH_START_TIME, LAUNCH_END_TIME>>

\* index.ts:26
ENABLE_TIMED_LAUNCH == TRUE

portalVars == <<isPortalActive, countdownText, timeSinceLastCheck, triggerAdded,
                instantTeleportCheckActive, portalScale, triggerZoneScale,
                countdownCreated, countdownScale, textShapeText,
                triggerListeners, pc, systemInstalled, instantTimerPending,
                frame, constructedActive, activations, skippedFrames>>

formatVars == <<argMilliseconds, argIsBeforeStart, formatted>>

cameraVars == <<virtualCameraEntity, activeCinematicCamera, isAnimating,
                elapsed, animationDuration, animationType, treeCameraPhase,
                treeTriggerUsed, npcTriggerUsed, returnElapsed>>

\* what the camera functions themselves read and write
cameraCore == <<virtualCameraEntity, activeCinematicCamera, isAnimating,
                elapsed, animationDuration, animationType, treeCameraPhase,
                returnElapsed>>

kersplatVars == <<kersplatCooldown, insideKersplat, moveRequest, respawns,
                  sinceRespawn>>

stageVars == <<treeCameraActive, portalCameraActive, npcCameraActive,
               runningCameraActive, inPortalZone, secondWarningShown,
               treeDialog, welcomeDialogOpen>>

sceneVars == <<cameraVars, sinceTreeStart, stageVars, kersplatVars, timers>>

burnVars == <<testMode, burnInitialised, burnPc, onStatusChange, statuses,
              addressRequests, providersCreated, sent, pollsStarted,
              burnResult, delayElapsed, burnClock, burns, attempt,
              receiptQueries, lastReceipt, confirmed>>

waitVars == <<attempt, receiptQueries, lastReceipt, confirmed>>

\* what the portal's operations leave alone
metaVars == <<metaCall, metaPc, collections>>

gateVars == <<playerHasNameApproved, nameCheckPending>>

cacheVars == <<nameOwnershipCache, nameChecks, onceCached>>

modalVars == <<modal, burnTasks, clicks, enableCollectionSelection>>

\* the burn module, the name gate and the other libraries of the scene
libraryVars == <<burnVars, metaVars, gateVars, cacheVars, modalVars>>

besidePortal == <<formatVars, zoneTest, sceneVars, libraryVars>>

vars == <<config, portalVars, playerPos, besidePortal>>

---------------------------------------------------------------------------
(* Bounds and input sets *)

\* the system makes at most this many INACTIVE -> ACTIVE transitions
MaxActivations == 2

\* at most this many frames in a row are skipped by the throttle
MaxSkippedFrames == 2

StartTimes == {100000000}

\* a window that never closes, a two-hour window, and a misconfigured one
EndTimes(start) == {0, start + 7200000, start - 1000}

\* around each polling threshold before the start, at the start, a day after
StartOffsets ==
    {-3600001, -3600000, -600001, -600000, -5001, -5000, -1, 0, 86400000}

EndOffsets == {-1, 0}

NowValues ==
    {LAUNCH_START_TIME + o : o \in StartOffsets}
        \cup (IF LAUNCH_END_TIME = 0 THEN {}
              ELSE {LAUNCH_END_TIME + o : o \in EndOffsets})

\* a second Date.now() in the same call: the same millisecond or the next
LaterRead(now) == {n \in NowValues : now <= n /\ n <= now + 1}

\* frame deltas, in ms
DtValues == {500, 9500, 59500}

AltarDestination == [x |-> 1690, y |-> 34, z |-> 98]

\* the boundary of the waiting zone on x, and the altar
PlayerPositions ==
    { [x |-> 1728, y |-> 220, z |-> -320],
      AltarDestination }

---------------------------------------------------------------------------
(* formatTimeRemaining, index.ts:136-162.  A text is the sequence of the   *)
(* pieces of its template literal, numbers kept as numbers: the string the *)
(* source builds is their concatenation, `${prefix}${minutes}m ${seconds}s`*)
(* being <<prefix, minutes, "m ", seconds, "s">>.                          *)

\* zero taken for a remaining time: the early return tests < 0
formatTimeRemaining_zeroCounts(milliseconds, isBeforeStart) ==
    IF milliseconds < 0
    THEN (IF isBeforeStart THEN <<"PORTAL OPENING SOON...">>
                           ELSE <<"PORTAL CLOSED">>)
    ELSE
      LET totalSeconds == milliseconds \div 1000
          days    == totalSeconds \div 86400
          hours   == (totalSeconds % 86400) \div 3600
          minutes == (totalSeconds % 3600) \div 60
          seconds == totalSeconds % 60
          prefix  == IF isBeforeStart THEN "PORTAL OPENS IN:\n"
                                      ELSE "PORTAL CLOSES IN:\n"
      IN  IF days > 0
          THEN <<prefix, days, "d ", hours, "h ", minutes, "m">>
          ELSE IF hours > 0
          THEN <<prefix, hours, "h ", minutes, "m">>
          ELSE IF minutes > 0
          THEN <<prefix, minutes, "m ", seconds, "s">>
          ELSE <<prefix, seconds, "s">>

\* the total of seconds rounded up (Math.ceil) instead of floored
formatTimeRemaining_roundsUp(milliseconds, isBeforeStart) ==
    IF milliseconds <= 0
    THEN (IF isBeforeStart THEN <<"PORTAL OPENING SOON...">>
                           ELSE <<"PORTAL CLOSED">>)
    ELSE
      LET totalSeconds == (milliseconds + 999) \div 1000
          days    == totalSeconds \div 86400
          hours   == (totalSeconds % 86400) \div 3600
          minutes == (totalSeconds % 3600) \div 60
          seconds == totalSeconds % 60
          prefix  == IF isBeforeStart THEN "PORTAL OPENS IN:\n"
                                      ELSE "PORTAL CLOSES IN:\n"
      IN  IF days > 0
          THEN <<prefix, days, "d ", hours, "h ", minutes, "m">>
          ELSE IF hours > 0
          THEN <<prefix, hours, "h ", minutes, "m">>
          ELSE IF minutes > 0
          THEN <<prefix, minutes, "m ", seconds, "s">>
          ELSE <<prefix, seconds, "s">>

formatTimeRemaining(milliseconds, isBeforeStart) ==
    IF milliseconds <= 0
    THEN (IF isBeforeStart THEN <<"PORTAL OPENING SOON...">>
                           ELSE <<"PORTAL CLOSED">>)
    ELSE
      LET totalSeconds == milliseconds \div 1000
          days    == totalSeconds \div 86400
          hours   == (totalSeconds % 86400) \div 3600
          minutes == (totalSeconds % 3600) \div 60
          seconds == totalSeconds % 60
          prefix  == IF isBeforeStart THEN "PORTAL OPENS IN:\n"
                                      ELSE "PORTAL CLOSES IN:\n"
      IN  IF days > 0
          THEN <<prefix, days, "d ", hours, "h ", minutes, "m">>
          ELSE IF hours > 0
          THEN <<prefix, hours, "h ", minutes, "m">>
          ELSE IF minutes > 0
          THEN <<prefix, minutes, "m ", seconds, "s">>
          ELSE <<prefix, seconds, "s">>

---------------------------------------------------------------------------
(* shouldPortalBeActive, index.ts:165-182; now is its Date.now() *)

\* the master shutdown not consulted
shouldPortalBeActive_noShutdown(now) ==
    IF ~ENABLE_TIMED_LAUNCH THEN TRUE
    ELSE IF LAUNCH_END_TIME = 0 THEN now >= LAUNCH_START_TIME
    ELSE now >= LAUNCH_START_TIME /\ now < LAUNCH_END_TIME

\* the open-ended window opening one millisecond late
shouldPortalBeActive_strictStart(now) ==
    IF ROCKSCAPE_PORTAL_SHUTDOWN THEN FALSE
    ELSE IF ~ENABLE_TIMED_LAUNCH THEN TRUE
    ELSE IF LAUNCH_END_TIME = 0 THEN now > LAUNCH_START_TIME
    ELSE now >= LAUNCH_START_TIME /\ now < LAUNCH_END_TIME

\* the closed window including its end
shouldPortalBeActive_inclusiveEnd(now) ==
    IF ROCKSCAPE_PORTAL_SHUTDOWN THEN FALSE
    ELSE IF ~ENABLE_TIMED_LAUNCH THEN TRUE
    ELSE IF LAUNCH_END_TIME = 0 THEN now >= LAUNCH_START_TIME
    ELSE now >= LAUNCH_START_TIME /\ now <= LAUNCH_END_TIME

shouldPortalBeActive(now) ==
    IF ROCKSCAPE_PORTAL_SHUTDOWN THEN FALSE
    ELSE IF ~ENABLE_TIMED_LAUNCH THEN TRUE
    ELSE IF LAUNCH_END_TIME = 0 THEN now >= LAUNCH_START_TIME
    ELSE now >= LAUNCH_START_TIME /\ now < LAUNCH_END_TIME

---------------------------------------------------------------------------
(* The evaluation made by the countdown system each tick, index.ts:1427-1446 *)

IsBeforeStart(now) == now < LAUNCH_START_TIME

\* the start of the window not tested
IsActive_ignoresStart(now) ==
    LAUNCH_END_TIME = 0 \/ now < LAUNCH_END_TIME

IsActive(now) ==
    now >= LAUNCH_START_TIME /\ (LAUNCH_END_TIME = 0 \/ now < LAUNCH_END_TIME)

\* the open-ended case not told apart: the time to an end that is not there
TimeUntilEvent_noOpenEnd(now) ==
    IF IsBeforeStart(now) THEN LAUNCH_START_TIME - now
    ELSE IF IsActive(now) THEN LAUNCH_END_TIME - now
    ELSE 0

TimeUntilEvent(now) ==
    IF IsBeforeStart(now) THEN LAUNCH_START_TIME - now
    ELSE IF IsActive(now) /\ LAUNCH_END_TIME = 0 THEN 0
    ELSE IF IsActive(now) THEN LAUNCH_END_TIME - now
    ELSE 0

NewCountdownText(now) ==
    IF IsBeforeStart(now)
    THEN formatTimeRemaining(LAUNCH_START_TIME - now, TRUE)
    ELSE IF IsActive(now) /\ LAUNCH_END_TIME = 0 THEN <<"PORTAL ACTIVE">>
    ELSE IF IsActive(now) THEN formatTimeRemaining(LAUNCH_END_TIME - now, FALSE)
    ELSE <<"PORTAL CLOSED">>

\* the same evaluation made once by main(), index.ts:1345-1361
InitialCountdown(now) ==
    IF now < LAUNCH_START_TIME
    THEN formatTimeRemaining(LAUNCH_START_TIME - now, TRUE)
    ELSE IF (now >= LAUNCH_START_TIME
             /\ (LAUNCH_END_TIME = 0 \/ now < LAUNCH_END_TIME))
            /\ LAUNCH_END_TIME = 0
    THEN <<"PORTAL ACTIVE">>
    ELSE IF now >= LAUNCH_START_TIME
            /\ (LAUNCH_END_TIME = 0 \/ now < LAUNCH_END_TIME)
    THEN formatTimeRemaining(LAUNCH_END_TIME - now, FALSE)
    ELSE <<"PORTAL CLOSED">>

---------------------------------------------------------------------------
(* Polling discipline of the countdown system, index.ts:1448-1480 *)

FiveSecondsMs == 5000
TenMinutesMs == 600000
OneHourMs == 3600000

\* checkInterval, index.ts:1455-1475 (seconds in the source, ms here)
CheckInterval(needsImmediateCheck, timeUntilEvent) ==
    IF needsImmediateCheck THEN 0
    ELSE IF timeUntilEvent <= 0 THEN 1000
    ELSE IF timeUntilEvent <= FiveSecondsMs THEN 0
    ELSE IF timeUntilEvent <= TenMinutesMs THEN 1000
    ELSE IF timeUntilEvent <= OneHourMs THEN 10000
    ELSE 60000

\* the fast path forgotten: the frame is throttled by the time tier alone
SkipsFrame_throttledAlways(needsImmediateCheck, sinceLastCheck, timeUntilEvent) ==
    sinceLastCheck < CheckInterval(FALSE, timeUntilEvent)

\* "Skip this frame", index.ts:1478-1480
SkipsFrame(needsImmediateCheck, sinceLastCheck, timeUntilEvent) ==
    ~needsImmediateCheck
        /\ sinceLastCheck < CheckInterval(needsImmediateCheck, timeUntilEvent)

---------------------------------------------------------------------------
(* The 8x8x8 waiting zone tested by the system, index.ts:1496-1516 *)

Abs(v) == IF v < 0 THEN -v ELSE v

InstantZonePos == [x |-> 1688, y |-> 220, z |-> -320]

InstantZoneSize == 80

InInstantZone(p) ==
    LET distX == Abs(p.x - InstantZonePos.x)
        distY == Abs(p.y - InstantZonePos.y)
        distZ == Abs(p.z - InstantZonePos.z)
        isWithinX == 2 * distX <= InstantZoneSize
        isWithinY == 2 * distY <= InstantZoneSize
        isWithinZ == 2 * distZ <= InstantZoneSize
    IN  isWithinX /\ isWithinY /\ isWithinZ

---------------------------------------------------------------------------
(* The two kersplat zones tested by the continuous position check,         *)
(* index.ts:1277-1304.  dist <= size / 2 is 2 * dist <= size.              *)

Zone1Pos == [x |-> 1680, y |-> 0, z |-> -240]

Zone1Size == [x |-> 1400, y |-> 10, z |-> 1600]

Zone2Pos == [x |-> 1680, y |-> 120, z |-> -240]

Zone2Size == [x |-> 500, y |-> 10, z |-> 500]

\* the boundary left out: dist < size / 2
InKersplatZone1_exclusive(p) ==
    LET distX1 == Abs(p.x - Zone1Pos.x)
        distY1 == Abs(p.y - Zone1Pos.y)
        distZ1 == Abs(p.z - Zone1Pos.z)
    IN  /\ 2 * distX1 < Zone1Size.x
        /\ 2 * distY1 < Zone1Size.y
        /\ 2 * distZ1 < Zone1Size.z

InKersplatZone1(p) ==
    LET distX1 == Abs(p.x - Zone1Pos.x)
        distY1 == Abs(p.y - Zone1Pos.y)
        distZ1 == Abs(p.z - Zone1Pos.z)
    IN  /\ 2 * distX1 <= Zone1Size.x
        /\ 2 * distY1 <= Zone1Size.y
        /\ 2 * distZ1 <= Zone1Size.z

InKersplatZone2(p) ==
    LET distX2 == Abs(p.x - Zone2Pos.x)
        distY2 == Abs(p.y - Zone2Pos.y)
        distZ2 == Abs(p.z - Zone2Pos.z)
    IN  /\ 2 * distX2 <= Zone2Size.x
        /\ 2 * distY2 <= Zone2Size.y
        /\ 2 * distZ2 <= Zone2Size.z

---------------------------------------------------------------------------
(* Scales written by main() and by the system's two branches *)

PortalShownScale == 1
TriggerOpenScale == 2
ZeroScale == 0

\* index.ts:931
InitialPortalScale(active) == IF active THEN PortalShownScale ELSE ZeroScale

\* the trigger volume created open whatever the window says
InitialTriggerScale_open(active) == TriggerOpenScale

\* index.ts:1022
InitialTriggerScale(active) == IF active THEN TriggerOpenScale ELSE ZeroScale

\* index.ts:1026: main registers the enter-callback itself when the portal is
\* already active; triggerAdded is not written there
InitialListeners(active) == IF active THEN <<"main">> ELSE <<>>

\* the guard dropped: every activation registers
RegistersListener_always(added) == TRUE

\* index.ts:1549: "Add the trigger listener only once"
RegistersListener(added) == ~added

NoFrame ==
    [kind |-> "none", now |-> 0, isBeforeStart |-> FALSE, isActive |-> FALSE,
     timeUntilEvent |-> 0, nowShould |-> 0, shouldBeActive |-> FALSE,
     wasActive |-> FALSE,
     needsImmediateCheck |-> FALSE, sinceLastCheck |-> 0, acted |-> FALSE]

---------------------------------------------------------------------------
(* Initial state: the module has been evaluated, main() has not run *)

\* no call of formatTimeRemaining is under study
FormatIdle ==
    /\ argMilliseconds = 0
    /\ argIsBeforeStart = FALSE
    /\ formatted = <<>>

NoZoneTest ==
    [kind |-> "none", inZone1 |-> FALSE, inZone2 |-> FALSE, within |-> FALSE]

\* elapsed times are told apart up to this many ms (the longest duration an
\* elapsed time is compared with is the 7400 ms of the orbit)
MaxElapsed == 7500

\* the time since the return began, since the tree camera started and since
\* the last respawn are told apart up to the duration each is compared with
MaxReturnElapsed == 2000

MaxSinceTreeStart == 1500

MaxSinceRespawn == 3000

NoMove == [x |-> 0, y |-> 0, z |-> 0]

\* cameraSystem's initial values (part_004:20-34): animationStartTime and
\* returnStartTime are 0, the epoch, which is longer ago than any duration
CameraInitial ==
    /\ virtualCameraEntity = "undefined"
    /\ activeCinematicCamera = "null"
    /\ isAnimating = FALSE
    /\ elapsed = MaxElapsed
    /\ animationDuration = 0
    /\ animationType = "null"
    /\ treeCameraPhase = "tilt"
    /\ treeTriggerUsed = FALSE
    /\ npcTriggerUsed = FALSE
    /\ returnElapsed = MaxReturnElapsed

\* index.ts:1272, no fall yet
KersplatInitial ==
    /\ kersplatCooldown = FALSE
    /\ insideKersplat = {}
    /\ moveRequest = NoMove
    /\ respawns = <<>>
    /\ sinceRespawn = MaxSinceRespawn

\* no trigger entered, no dialog opened
StageInitial ==
    /\ sinceTreeStart = MaxSinceTreeStart
    /\ treeCameraActive = FALSE
    /\ portalCameraActive = FALSE
    /\ npcCameraActive = FALSE
    /\ runningCameraActive = FALSE
    /\ inPortalZone = FALSE
    /\ secondWarningShown = FALSE
    /\ treeDialog = "closed"
    /\ welcomeDialogOpen = FALSE

SceneInitial ==
    /\ CameraInitial
    /\ StageInitial
    /\ KersplatInitial
    /\ timers = <<>>

\* the transaction hash of a call that returned none
NoHash == [prefix |-> "none", stamp |-> 0]

\* nftBurner.ts:56-64, the default config, and no burnNFT call made
BurnInitial ==
    /\ testMode = FALSE
    /\ burnInitialised = FALSE
    /\ burnPc = "idle"
    /\ onStatusChange = FALSE
    /\ statuses = <<>>
    /\ addressRequests = 0
    /\ providersCreated = 0
    /\ sent = <<>>
    /\ pollsStarted = 0
    /\ burnResult = [success |-> FALSE, txHash |-> NoHash]
    /\ delayElapsed = 0
    /\ burnClock = 0
    /\ burns = 0
    /\ attempt = 0
    /\ receiptQueries = 0
    /\ lastReceipt = "none"
    /\ confirmed = FALSE

\* what a collection initialiser is called with when none is called
NoMetaCall == [kind |-> "none"]

\* no collection initialiser called
MetaIdle ==
    /\ metaCall = NoMetaCall
    /\ metaPc = "idle"
    /\ collections = <<>>

\* index.ts:979, and no name check under way
GateInitial ==
    /\ playerHasNameApproved = FALSE
    /\ nameCheckPending = 0

\* addresses as callers write them
Addresses == {"0xAB", "0xab", "0xcd"}

\* userAddress.toLowerCase(), nameGate.ts:16
ToLowerCase(address) == IF address = "0xAB" THEN "0xab" ELSE address

CacheKeys == {ToLowerCase(a) : a \in Addresses}

\* at most this many checkDecentralandNameOwnership calls are made
MaxNameChecks == 3

NotCalled ==
    [pc |-> "notCalled", address |-> "", requests |-> 0, result |-> "none",
     held |-> "absent"]

\* nameGate.ts:7, an empty Map, and no check made
CacheInitial ==
    /\ nameOwnershipCache = [k \in CacheKeys |-> "absent"]
    /\ nameChecks = [c \in 1..MaxNameChecks |-> NotCalled]
    /\ onceCached = [k \in CacheKeys |-> "absent"]

\* what hideBurnModal leaves, nftBurner.ts:1750-1771, which is also the
\* module-level state at load, nftBurner.ts:1636-1663
hideBurnModal ==
    [isModalVisible |-> FALSE, showCollectionSelection |-> FALSE,
     isLoadingNFTs |-> FALSE, showError |-> FALSE,
     hasCollectionSelection |-> FALSE, availableNFTs |-> "none",
     selectedNFT |-> "null", showConfirmation |-> FALSE, burnStatus |-> "",
     isProcessing |-> FALSE, isCompleted |-> FALSE, completedTxHash |-> "",
     onConfirmCallback |-> "null", onCollectionSelectCallback |-> "null"]

\* no click made, the modal as at load
ModalInitial ==
    /\ modal = hideBurnModal
    /\ burnTasks = <<>>
    /\ clicks = 0

LibrariesIdle ==
    /\ MetaIdle
    /\ GateInitial
    /\ CacheInitial
    /\ ModalInitial
    /\ enableCollectionSelection = FALSE

\* the module-level state of index.ts:129-133 before main()
PortalNotStarted ==
    /\ isPortalActive = FALSE
    /\ countdownText = <<"">>
    /\ timeSinceLastCheck = 0
    /\ triggerAdded = FALSE
    /\ instantTeleportCheckActive = FALSE
    /\ portalScale = ZeroScale
    /\ triggerZoneScale = ZeroScale
    /\ countdownCreated = FALSE
    /\ countdownScale = ZeroScale
    /\ textShapeText = <<"">>
    /\ triggerListeners = <<>>
    /\ pc = "load"
    /\ systemInstalled = FALSE
    /\ instantTimerPending = FALSE
    /\ frame = NoFrame
    /\ constructedActive = FALSE
    /\ activations = 0
    /\ skippedFrames = 0

Init ==
    /\ ROCKSCAPE_PORTAL_SHUTDOWN \in BOOLEAN
    /\ LAUNCH_START_TIME \in StartTimes
    /\ LAUNCH_END_TIME \in EndTimes(LAUNCH_START_TIME)
    /\ PortalNotStarted
    /\ playerPos \in PlayerPositions
    /\ FormatIdle
    /\ zoneTest = NoZoneTest
    /\ SceneInitial
    /\ BurnInitial
    /\ LibrariesIdle

---------------------------------------------------------------------------
(* main(), the portal part: index.ts:926-933, 1017-1048, 1343-1424.        *)
(* now is the Date.now() of shouldPortalBeActive (line 927), nowCountdown  *)
(* the one of the initial countdown (line 1345).                           *)

Main(now, nowCountdown) ==
    /\ pc = "load"
    /\ pc' = "running"
    /\ LET active == shouldPortalBeActive(now)
           timed  == ENABLE_TIMED_LAUNCH /\ ~ROCKSCAPE_PORTAL_SHUTDOWN
       IN  /\ isPortalActive' = active
           /\ portalScale' = InitialPortalScale(active)
           /\ triggerZoneScale' = InitialTriggerScale(active)
           /\ triggerListeners' = InitialListeners(active)
           /\ systemInstalled' = timed
           /\ countdownCreated' = timed
           /\ countdownScale' = IF timed THEN 1 ELSE countdownScale
           /\ countdownText' = IF timed THEN InitialCountdown(nowCountdown)
                                        ELSE countdownText
           /\ textShapeText' = IF timed THEN InitialCountdown(nowCountdown)
                                        ELSE textShapeText
           /\ constructedActive' = active
           /\ frame' = IF timed
                       THEN [NoFrame EXCEPT !.kind = "main",
                                !.now = nowCountdown,
                                !.isBeforeStart = nowCountdown < LAUNCH_START_TIME,
                                !.isActive =
                                    nowCountdown >= LAUNCH_START_TIME
                                    /\ (LAUNCH_END_TIME = 0
                                        \/ nowCountdown < LAUNCH_END_TIME),
                                !.nowShould = now,
                                !.shouldBeActive = active]
                       ELSE [NoFrame EXCEPT !.kind = "construct",
                                !.nowShould = now,
                                !.shouldBeActive = active]
    /\ UNCHANGED <<config, timeSinceLastCheck, triggerAdded,
                   instantTeleportCheckActive, playerPos, instantTimerPending,
                   activations, skippedFrames, besidePortal>>

\* a level-triggered activation: the branch is taken whenever the evaluator
\* says active
Activates_levelTriggered(shouldBeActive, wasActive) == shouldBeActive

\* index.ts:1537, if (shouldBeActive && !isPortalActive)
Activates(shouldBeActive, wasActive) == shouldBeActive /\ ~wasActive

\* index.ts:1570, else if (!shouldBeActive && isPortalActive)
Deactivates(shouldBeActive, wasActive) == ~shouldBeActive /\ wasActive

---------------------------------------------------------------------------
(* One invocation of the countdown system, index.ts:1424-1588.             *)
(* dt is the frame delta, now the Date.now() of line 1427, nowShould the   *)
(* Date.now() read inside shouldPortalBeActive() at line 1449.             *)

Tick(dt, now, nowShould) ==
    /\ pc = "running"
    /\ systemInstalled
    /\ LET sinceLastCheck      == timeSinceLastCheck + dt
           isBeforeStart       == IsBeforeStart(now)
           isActive            == IsActive(now)
           timeUntilEvent      == TimeUntilEvent(now)
           newCountdownText    == NewCountdownText(now)
           shouldBeActive      == shouldPortalBeActive(nowShould)
           needsImmediateCheck == shouldBeActive /\ ~isPortalActive
           skip     == SkipsFrame(needsImmediateCheck, sinceLastCheck, timeUntilEvent)
           instant  == needsImmediateCheck /\ ~instantTeleportCheckActive
                          /\ InInstantZone(playerPos)
           activate   == Activates(shouldBeActive, isPortalActive)
           deactivate == Deactivates(shouldBeActive, isPortalActive)
           seen == [kind |-> "tick", now |-> now, isBeforeStart |-> isBeforeStart,
                    isActive |-> isActive, timeUntilEvent |-> timeUntilEvent,
                    nowShould |-> nowShould,
                    shouldBeActive |-> shouldBeActive,
                    wasActive |-> isPortalActive,
                    needsImmediateCheck |-> needsImmediateCheck,
                    sinceLastCheck |-> sinceLastCheck, acted |-> ~skip]
       IN  /\ frame' = seen
           /\ IF skip
              THEN /\ skippedFrames < MaxSkippedFrames
                   /\ skippedFrames' = skippedFrames + 1
                   /\ timeSinceLastCheck' = sinceLastCheck
                   /\ UNCHANGED <<isPortalActive, countdownText, triggerAdded,
                                  instantTeleportCheckActive, portalScale,
                                  triggerZoneScale, countdownScale, textShapeText,
                                  triggerListeners, playerPos,
                                  instantTimerPending, activations>>
              ELSE /\ skippedFrames' = 0
                   /\ timeSinceLastCheck' = 0
                   \* update countdown text, 1485-1490
                   /\ countdownText' = newCountdownText
                   /\ textShapeText' = IF newCountdownText # countdownText
                                       THEN newCountdownText ELSE textShapeText
                   \* instant teleport of a waiting player, 1492-1534
                   /\ instantTeleportCheckActive' =
                          IF instant THEN TRUE ELSE instantTeleportCheckActive
                   /\ playerPos' = IF instant THEN AltarDestination ELSE playerPos
                   /\ instantTimerPending' =
                          IF instant THEN TRUE ELSE instantTimerPending
                   \* activate / deactivate, 1536-1585
                   /\ activate => activations < MaxActivations
                   /\ activations' = IF activate THEN activations + 1
                                                 ELSE activations
                   /\ isPortalActive' = IF activate THEN TRUE
                                        ELSE IF deactivate THEN FALSE
                                        ELSE isPortalActive
                   /\ portalScale' = IF activate THEN PortalShownScale
                                     ELSE IF deactivate THEN ZeroScale
                                     ELSE portalScale
                   /\ triggerZoneScale' = IF activate THEN TriggerOpenScale
                                          ELSE IF deactivate THEN ZeroScale
                                          ELSE triggerZoneScale
                   /\ triggerListeners' =
                          IF activate /\ RegistersListener(triggerAdded)
                          THEN Append(triggerListeners, "timedLaunch")
                          ELSE triggerListeners
                   /\ triggerAdded' =
                          IF activate /\ RegistersListener(triggerAdded)
                          THEN TRUE ELSE triggerAdded
                   /\ countdownScale' = IF deactivate THEN ZeroScale
                                                      ELSE countdownScale
    /\ UNCHANGED <<config, countdownCreated, pc, systemInstalled,
                   constructedActive, besidePortal>>

\* the callback of utils.timers.setTimeout(..., 2000), index.ts:1528-1530
InstantTeleportTimeout ==
    /\ instantTimerPending
    /\ instantTimerPending' = FALSE
    /\ instantTeleportCheckActive' = FALSE
    /\ UNCHANGED <<config, isPortalActive, countdownText, timeSinceLastCheck,
                   triggerAdded, portalScale, triggerZoneScale, countdownCreated,
                   countdownScale, textShapeText, triggerListeners, playerPos,
                   pc, systemInstalled, frame, constructedActive, activations,
                   skippedFrames, besidePortal>>

\* the host moves the player (walking, falling)
PlayerMoves(p) ==
    /\ pc = "running"
    /\ p # playerPos
    /\ playerPos' = p
    /\ UNCHANGED <<config, portalVars, besidePortal>>

Next ==
    \/ \E now \in NowValues : \E later \in NowValues :
           later >= now /\ Main(now, later)
    \/ \E dt \in DtValues : \E now \in NowValues : \E nowShould \in LaterRead(now) :
           Tick(dt, now, nowShould)
    \/ InstantTeleportTimeout
    \/ \E p \in PlayerPositions : PlayerMoves(p)

Spec == Init /\ [][Next]_vars

---------------------------------------------------------------------------
(* Properties of the portal state machine *)

\* C1: when main() leaves the portal INACTIVE (isPortalActive = false,
\* triggerAdded = false), the teleport trigger's enter-callback is registered
\* exactly once, by the system's first INACTIVE -> ACTIVE transition, and no
\* later ACTIVE -> INACTIVE -> ACTIVE oscillation registers it again.
C1_RegisteredOnceFromInactive ==
    (pc = "running" /\ ~constructedActive) =>
        /\ Len(triggerListeners) = (IF activations >= 1 THEN 1 ELSE 0)
        /\ triggerAdded = (activations >= 1)

\* the portal, constructed INACTIVE, has been activated a second time
C1_Witness ==
    /\ ~constructedActive
    /\ activations = 2
    /\ isPortalActive
    /\ Len(triggerListeners) = 1

\* C2: whatever the portal's state at construction, the enter-callback is
\* registered at most once in total, and triggerAdded never goes from true
\* back to false.
C2_AtMostOneRegistration ==
    /\ [](Len(triggerListeners) <= 1)
    /\ [][triggerAdded => triggerAdded']_vars

\* C3: with ROCKSCAPE_PORTAL_SHUTDOWN set, shouldPortalBeActive is false
\* for every now, start and end, and the portal is never ACTIVE.
C3_ShutdownForcesInactive ==
    ROCKSCAPE_PORTAL_SHUTDOWN =>
        /\ ~isPortalActive
        /\ ~frame.shouldBeActive
        /\ ~systemInstalled
        /\ \A n \in NowValues : ~shouldPortalBeActive(n)

\* main() has run under the shutdown at a time inside the window
C3_Witness ==
    /\ ROCKSCAPE_PORTAL_SHUTDOWN
    /\ pc = "running"
    /\ LAUNCH_END_TIME = 0
    /\ frame.nowShould >= LAUNCH_START_TIME

\* C4: for an open-ended window (end = 0) with the shutdown off, the
\* evaluator is active iff now >= start, however far past start; so is the
\* isActive computed by main() and by the system.
C4_OpenEndedActiveIffStarted ==
    (~ROCKSCAPE_PORTAL_SHUTDOWN /\ LAUNCH_END_TIME = 0) =>
        /\ frame.kind # "none" =>
              (frame.shouldBeActive <=> frame.nowShould >= LAUNCH_START_TIME)
        /\ frame.kind \in {"main", "tick"} =>
              (frame.isActive <=> frame.now >= LAUNCH_START_TIME)

\* a tick one day after the start of an open-ended window finds it active
C4_Witness ==
    /\ ~ROCKSCAPE_PORTAL_SHUTDOWN
    /\ LAUNCH_END_TIME = 0
    /\ frame.kind = "tick"
    /\ frame.nowShould = LAUNCH_START_TIME + 86400000
    /\ frame.shouldBeActive
    /\ frame.isActive

\* C5: for a closed window (end # 0) with the shutdown off, the evaluator is
\* active iff start <= now < end (active at now = start, inactive at
\* now = end), and shouldPortalBeActive and the system's isActive agree at
\* every now.
C5_ClosedActiveInsideWindow ==
    (~ROCKSCAPE_PORTAL_SHUTDOWN /\ LAUNCH_END_TIME # 0) =>
        /\ frame.kind # "none" =>
              (frame.shouldBeActive <=>
                  (LAUNCH_START_TIME <= frame.nowShould
                   /\ frame.nowShould < LAUNCH_END_TIME))
        /\ frame.kind \in {"main", "tick"} =>
              (frame.isActive <=>
                  (LAUNCH_START_TIME <= frame.now
                   /\ frame.now < LAUNCH_END_TIME))
        /\ \A n \in NowValues : shouldPortalBeActive(n) = IsActive(n)

\* a tick at now = end finds the active portal's window closed
C5_Witness ==
    /\ ~ROCKSCAPE_PORTAL_SHUTDOWN
    /\ LAUNCH_END_TIME > LAUNCH_START_TIME
    /\ frame.kind = "tick"
    /\ frame.now = LAUNCH_END_TIME
    /\ frame.nowShould = LAUNCH_END_TIME
    /\ frame.wasActive
    /\ ~frame.shouldBeActive
    /\ ~frame.isActive

\* C6: for every now < start the evaluation of main() and of the system
\* yields isBeforeStart = true and isActive = false, whatever the end.
C6_BeforeStartInactive ==
    (frame.kind \in {"main", "tick"} /\ frame.now < LAUNCH_START_TIME) =>
        (frame.isBeforeStart /\ ~frame.isActive)

\* a tick before the start of a window whose end lies before its start
C6_Witness ==
    /\ frame.kind = "tick"
    /\ LAUNCH_END_TIME # 0
    /\ LAUNCH_END_TIME <= frame.now
    /\ frame.now < LAUNCH_START_TIME
    /\ frame.isBeforeStart
    /\ ~frame.isActive

\* C7: the time-to-event of a tick is start - now when now < start,
\* end - now when the window is active and has an end, and 0 otherwise.
C7_TimeToNextBoundary ==
    frame.kind = "tick" =>
        frame.timeUntilEvent =
            (IF frame.now < LAUNCH_START_TIME
             THEN LAUNCH_START_TIME - frame.now
             ELSE IF LAUNCH_END_TIME # 0 /\ frame.now < LAUNCH_END_TIME
             THEN LAUNCH_END_TIME - frame.now
             ELSE 0)

\* a tick inside a closed window counts down to its end
C7_Witness ==
    /\ frame.kind = "tick"
    /\ LAUNCH_END_TIME # 0
    /\ frame.isActive
    /\ frame.timeUntilEvent = LAUNCH_END_TIME - frame.now
    /\ frame.timeUntilEvent > 0

\* C8: the flag starts as the evaluator's result at construction, and after
\* construction and at the end of every tick the portal model is shown
\* (scale 1) iff isPortalActive and the trigger volume is open (scale 2) iff
\* isPortalActive.
C8_TogglesFollowFlag ==
    pc = "running" =>
        /\ portalScale = (IF isPortalActive THEN 1 ELSE 0)
        /\ triggerZoneScale = (IF isPortalActive THEN 2 ELSE 0)
        /\ frame.kind \in {"main", "construct"} =>
              (isPortalActive <=>
                  (/\ ~ROCKSCAPE_PORTAL_SHUTDOWN
                   /\ frame.nowShould >= LAUNCH_START_TIME
                   /\ (LAUNCH_END_TIME = 0
                       \/ frame.nowShould < LAUNCH_END_TIME)))

\* a transition tick has ended: the portal is ACTIVE, shown and open
C8_Witness ==
    /\ frame.kind = "tick"
    /\ ~frame.wasActive
    /\ isPortalActive
    /\ portalScale = 1
    /\ triggerZoneScale = 2

\* C9: every ACTIVE -> INACTIVE transition hides the portal model, closes
\* the trigger volume and clears the countdown; and once the portal is
\* ACTIVE again the countdown is displayed as for an active portal.
C9_DeactivationUndoneByActivation ==
    /\ (frame.kind = "tick" /\ frame.wasActive /\ ~isPortalActive) =>
          (portalScale = 0 /\ triggerZoneScale = 0 /\ countdownScale = 0)
    /\ (systemInstalled /\ isPortalActive) => countdownScale = 1

\* C10: a tick in which the evaluator says active while the portal is
\* INACTIVE is never throttled, whatever the accumulated time and the tier,
\* and leaves the portal ACTIVE.
C10_ImmediateActivation ==
    (frame.kind = "tick" /\ frame.shouldBeActive /\ ~frame.wasActive) =>
        (frame.acted /\ isPortalActive)

\* the portal was opened by a tick that the one-second tier would have skipped
C10_Witness ==
    /\ frame.kind = "tick"
    /\ frame.needsImmediateCheck
    /\ frame.timeUntilEvent = 0
    /\ frame.sinceLastCheck = 500
    /\ frame.acted
    /\ isPortalActive

\* the interval the tiers are documented to give for a positive time-to-event
C11_ClaimedInterval(t) ==
    IF t < FiveSecondsMs THEN 0
    ELSE IF t < TenMinutesMs THEN 1000
    ELSE IF t < OneHourMs THEN 10000
    ELSE 60000

\* C11: when no immediate check is needed and the time-to-event t is
\* positive, a tick acts iff the time accumulated since the last acted check
\* has reached 0 for t < 5 s, 1 s for 5 s <= t < 10 min, 10 s for
\* 10 min <= t < 1 h and 60 s for t >= 1 h, with these thresholds at the
\* boundary values 5000, 600000 and 3600000 ms.
C11_TieredIntervalThresholds ==
    (frame.kind = "tick" /\ ~frame.needsImmediateCheck
        /\ frame.timeUntilEvent > 0) =>
        (frame.acted <=>
            frame.sinceLastCheck >= C11_ClaimedInterval(frame.timeUntilEvent))

---------------------------------------------------------------------------
(* formatTimeRemaining as a function of its arguments.  The countdown      *)
(* system only passes it positive differences; here it is called on its    *)
(* whole domain, the portal not started.                                   *)

\* remaining times of up to this many whole days are formatted
MaxFormatDays == 1

\* every combination of the fields around their limits, with and without a
\* fraction of a second; zero and negative times; the documented examples
FormatInputs ==
    { d * 86400000 + h * 3600000 + m * 60000 + sec * 1000 + r :
        d \in 0..MaxFormatDays, h \in {0, 1, 23}, m \in {0, 1, 59},
        sec \in {0, 1, 30, 59}, r \in {0, 999} }
      \cup {-86400000, -1000, -1, 90000, 3700000, 90061000}

\* the configuration of index.ts:19-31, main() not yet run
PortalAside ==
    /\ ROCKSCAPE_PORTAL_SHUTDOWN = FALSE
    /\ LAUNCH_START_TIME \in StartTimes
    /\ LAUNCH_END_TIME = 0
    /\ PortalNotStarted
    /\ playerPos = AltarDestination

FormatInit ==
    /\ PortalAside
    /\ argMilliseconds \in FormatInputs
    /\ argIsBeforeStart \in BOOLEAN
    /\ formatted = <<>>
    /\ zoneTest = NoZoneTest
    /\ SceneInitial
    /\ BurnInitial
    /\ LibrariesIdle

\* the call formatTimeRemaining(argMilliseconds, argIsBeforeStart)
CallFormat ==
    /\ formatted = <<>>
    /\ formatted' = formatTimeRemaining(argMilliseconds, argIsBeforeStart)
    /\ UNCHANGED <<config, portalVars, libraryVars, playerPos, argMilliseconds,
                   argIsBeforeStart, zoneTest, sceneVars>>

FormatNext == CallFormat

SpecFormat == FormatInit /\ [][FormatNext]_vars

\* C12: for every msRemaining <= 0 the formatter returns the "opening soon"
\* message when isBeforeStart is true and the "closed" message when it is
\* false, and never a numeric countdown.
C12_NonPositiveIsMessage ==
    (formatted # <<>> /\ argMilliseconds <= 0) =>
        /\ Len(formatted) = 1
        /\ formatted[1] = (IF argIsBeforeStart THEN "PORTAL OPENING SOON..."
                                               ELSE "PORTAL CLOSED")

\* the formatter has been called with exactly 0 ms before the start
C12_Witness ==
    /\ argMilliseconds = 0
    /\ argIsBeforeStart
    /\ formatted = <<"PORTAL OPENING SOON...">>

\* C13: for every msRemaining > 0 the numeric fields are the floored
\* decomposition of floor(ms / 1000) seconds (days * 86400 + hours * 3600 +
\* minutes * 60 + seconds = floor(ms / 1000), hours < 24, minutes < 60,
\* seconds < 60), shown at the tier's precision: days, hours and minutes
\* from one day up; hours and minutes from one hour up; minutes and seconds
\* under an hour with minutes > 0; seconds only under a minute; so
\* 90000 -> 1m 30s, 3700000 -> 1h 1m, 90061000 -> 1d 1h 1m.
C13_FlooredDecomposition ==
    (formatted # <<>> /\ argMilliseconds > 0) =>
        LET total  == argMilliseconds \div 1000
            prefix == IF argIsBeforeStart THEN "PORTAL OPENS IN:\n"
                                          ELSE "PORTAL CLOSES IN:\n"
            n      == Len(formatted)
        IN  /\ formatted[1] = prefix
            /\ n \in {3, 5, 7}
            /\ n = 7 =>
                 /\ formatted[3] = "d " /\ formatted[5] = "h "
                 /\ formatted[7] = "m"
                 /\ formatted[2] > 0
                 /\ formatted[4] \in 0..23 /\ formatted[6] \in 0..59
                 /\ \E sec \in 0..59 :
                      formatted[2] * 86400 + formatted[4] * 3600
                          + formatted[6] * 60 + sec = total
            /\ (n = 5 /\ formatted[3] = "h ") =>
                 /\ formatted[5] = "m"
                 /\ formatted[2] \in 1..23 /\ formatted[4] \in 0..59
                 /\ \E sec \in 0..59 :
                      formatted[2] * 3600 + formatted[4] * 60 + sec = total
            /\ (n = 5 /\ formatted[3] # "h ") =>
                 /\ formatted[3] = "m " /\ formatted[5] = "s"
                 /\ formatted[2] \in 1..59 /\ formatted[4] \in 0..59
                 /\ formatted[2] * 60 + formatted[4] = total
            /\ n = 3 =>
                 /\ formatted[3] = "s"
                 /\ formatted[2] \in 0..59
                 /\ formatted[2] = total
            /\ argMilliseconds = 90000 =>
                 formatted = <<prefix, 1, "m ", 30, "s">>
            /\ argMilliseconds = 3700000 =>
                 formatted = <<prefix, 1, "h ", 1, "m">>
            /\ argMilliseconds = 90061000 =>
                 formatted = <<prefix, 1, "d ", 1, "h ", 1, "m">>

\* a day, 23 hours, 59 minutes and 59.999 seconds have been formatted
C13_Witness ==
    /\ argMilliseconds = 172799999
    /\ formatted = <<"PORTAL CLOSES IN:\n", 1, "d ", 23, "h ", 59, "m">>

---------------------------------------------------------------------------
(* The containment tests as functions of the player's position: the        *)
(* position is drawn around the faces, edges and corners of each zone.     *)

\* positions up to this many decimetres beyond a face are probed
ProbeMargin == 1

ProbeOffsets(size) ==
    {-(size \div 2), 0, size \div 2}
        \cup {-(size \div 2) - k : k \in 1..ProbeMargin}
        \cup {(size \div 2) + k : k \in 1..ProbeMargin}

ProbesAround(pos, size) ==
    { [x |-> pos.x + ox, y |-> pos.y + oy, z |-> pos.z + oz] :
        ox \in ProbeOffsets(size.x), oy \in ProbeOffsets(size.y),
        oz \in ProbeOffsets(size.z) }

ProbePositions ==
    ProbesAround(Zone1Pos, Zone1Size)
        \cup ProbesAround(Zone2Pos, Zone2Size)
        \cup ProbesAround(InstantZonePos,
                 [x |-> InstantZoneSize, y |-> InstantZoneSize,
                  z |-> InstantZoneSize])

ZonesInit ==
    /\ ROCKSCAPE_PORTAL_SHUTDOWN = FALSE
    /\ LAUNCH_START_TIME \in StartTimes
    /\ LAUNCH_END_TIME = 0
    /\ PortalNotStarted
    /\ playerPos \in ProbePositions
    /\ FormatIdle
    /\ zoneTest = NoZoneTest
    /\ SceneInitial
    /\ BurnInitial
    /\ LibrariesIdle

\* inZone1 and inZone2 of the continuous position check, index.ts:1277-1304
KersplatZoneTest ==
    /\ zoneTest.kind # "kersplat"
    /\ zoneTest' = [kind |-> "kersplat",
                    inZone1 |-> InKersplatZone1(playerPos),
                    inZone2 |-> InKersplatZone2(playerPos),
                    within |-> FALSE]
    /\ UNCHANGED <<config, portalVars, libraryVars, playerPos, formatVars,
                   sceneVars>>

\* isWithinX && isWithinY && isWithinZ of index.ts:1496-1516
InstantZoneTest ==
    /\ zoneTest.kind # "instant"
    /\ zoneTest' = [kind |-> "instant", inZone1 |-> FALSE, inZone2 |-> FALSE,
                    within |-> InInstantZone(playerPos)]
    /\ UNCHANGED <<config, portalVars, libraryVars, playerPos, formatVars,
                   sceneVars>>

ZonesNext ==
    \/ KersplatZoneTest
    \/ InstantZoneTest

SpecZones == ZonesInit /\ [][ZonesNext]_vars

\* C14: containment is an independent test per axis, |p - center| <=
\* halfExtent on x, y and z, boundary included: a point at the half extent
\* on an axis is contained, a point one unit beyond on any single axis is
\* not; for both kersplat zones (half extents 70 x 0.5 x 80 m and
\* 25 x 0.5 x 25 m) and for the 8 x 8 x 8 m instant-teleport zone.
C14_PerAxisInclusiveBox ==
    /\ zoneTest.kind = "kersplat" =>
         /\ zoneTest.inZone1 <=>
              (/\ Abs(playerPos.x - 1680) <= 700
               /\ Abs(playerPos.y - 0) <= 5
               /\ Abs(playerPos.z - (-240)) <= 800)
         /\ zoneTest.inZone2 <=>
              (/\ Abs(playerPos.x - 1680) <= 250
               /\ Abs(playerPos.y - 120) <= 5
               /\ Abs(playerPos.z - (-240)) <= 250)
    /\ zoneTest.kind = "instant" =>
         (zoneTest.within <=>
              (/\ Abs(playerPos.x - 1688) <= 40
               /\ Abs(playerPos.y - 220) <= 40
               /\ Abs(playerPos.z - (-320)) <= 40))

\* the corner of kersplat zone 1, on the boundary on all three axes, has
\* been tested and found inside
C14_Witness ==
    /\ playerPos = [x |-> 2380, y |-> 5, z |-> 560]
    /\ zoneTest.kind = "kersplat"
    /\ zoneTest.inZone1

---------------------------------------------------------------------------
(* Time and utils.timers.  Time passes in steps; a timer is due once its   *)
(* delay has passed and the timer system runs it in that frame, before     *)
(* more time passes.                                                       *)

\* the frame lengths, in ms
FrameLengths == {1500}

\* at most this many setTimeout callbacks are pending at once
MaxTimers == 3

Min(a, b) == IF a < b THEN a ELSE b

Max(a, b) == IF a > b THEN a ELSE b

SetTimeout(ts, kind, delay) == Append(ts, [kind |-> kind, remaining |-> delay])

RemoveAt(ts, i) == [j \in 1..(Len(ts) - 1) |-> IF j < i THEN ts[j] ELSE ts[j + 1]]

IsDue(i, kind) ==
    /\ i \in 1..Len(timers)
    /\ timers[i].kind = kind
    /\ timers[i].remaining = 0

\* a frame of d ms begins
Advance(d) ==
    /\ pc = "running"
    /\ \A i \in 1..Len(timers) : timers[i].remaining > 0
    /\ timers' = [i \in 1..Len(timers) |->
                    [timers[i] EXCEPT !.remaining = Max(0, @ - d)]]
    /\ elapsed' = Min(elapsed + d, MaxElapsed)
    /\ returnElapsed' = Min(returnElapsed + d, MaxReturnElapsed)
    /\ sinceRespawn' = Min(sinceRespawn + d, MaxSinceRespawn)
    /\ sinceTreeStart' = Min(sinceTreeStart + d, MaxSinceTreeStart)
    /\ UNCHANGED <<config, portalVars, libraryVars, playerPos, formatVars,
                   zoneTest, stageVars,
                   virtualCameraEntity, activeCinematicCamera, isAnimating,
                   animationDuration, animationType, treeCameraPhase,
                   treeTriggerUsed, npcTriggerUsed, kersplatCooldown,
                   insideKersplat, moveRequest, respawns>>

---------------------------------------------------------------------------
(* The camera functions of cameraSystem (part_004).  The positions of the  *)
(* camera entities and of their targets are not part of the model: each    *)
(* is a function of the elapsed time and of the player's position.         *)

\* the tree camera's phase left as it was
resetToDefaultCamera_keepsPhase ==
    IF activeCinematicCamera # "null"
    THEN /\ virtualCameraEntity' = "undefined"
         /\ activeCinematicCamera' = "null"
         /\ isAnimating' = FALSE
         /\ animationType' = "null"
         /\ UNCHANGED <<elapsed, animationDuration, treeCameraPhase,
                        returnElapsed>>
    ELSE UNCHANGED cameraCore

\* part_004:61-72
resetToDefaultCamera ==
    IF activeCinematicCamera # "null"
    THEN /\ virtualCameraEntity' = "undefined"
         /\ activeCinematicCamera' = "null"
         /\ isAnimating' = FALSE
         /\ animationType' = "null"
         /\ treeCameraPhase' = "tilt"
         /\ UNCHANGED <<elapsed, animationDuration, returnElapsed>>
    ELSE UNCHANGED cameraCore

\* part_004:75-82
startTreeCameraOrbit ==
    IF animationType = "tree" /\ treeCameraPhase = "hold"
    THEN /\ treeCameraPhase' = "orbit"
         /\ elapsed' = 0
         /\ isAnimating' = TRUE
         /\ UNCHANGED <<virtualCameraEntity, activeCinematicCamera,
                        animationDuration, animationType, returnElapsed>>
    ELSE UNCHANGED cameraCore

\* part_004:85-97
resetTreeCamera ==
    IF animationType = "tree"
    THEN /\ returnElapsed' = 0
         /\ treeCameraPhase' = "return"
         /\ isAnimating' = TRUE
         /\ UNCHANGED <<virtualCameraEntity, activeCinematicCamera, elapsed,
                        animationDuration, animationType>>
    ELSE resetToDefaultCamera

\* part_004:253-292
TreeStartCinematic ==
    /\ virtualCameraEntity' = "tree"
    /\ activeCinematicCamera' = "tree"
    /\ isAnimating' = TRUE
    /\ animationType' = "tree"
    /\ elapsed' = 0
    /\ animationDuration' = 1500
    /\ UNCHANGED <<treeCameraPhase, returnElapsed>>

\* part_004:323-354
NpcStartCinematic ==
    /\ virtualCameraEntity' = "npc"
    /\ activeCinematicCamera' = "npc"
    /\ animationType' = "npc"
    /\ elapsed' = 0
    /\ animationDuration' = 0
    /\ isAnimating' = TRUE
    /\ UNCHANGED <<treeCameraPhase, returnElapsed>>

\* the running camera bound without its type being recorded
RunningStartCinematic_noType ==
    /\ virtualCameraEntity' = "running"
    /\ activeCinematicCamera' = "running"
    /\ isAnimating' = TRUE
    /\ UNCHANGED <<animationType, elapsed, animationDuration, treeCameraPhase,
                   returnElapsed>>

\* part_004:451-469, without its setTimeout
RunningStartCinematic ==
    /\ virtualCameraEntity' = "running"
    /\ activeCinematicCamera' = "running"
    /\ animationType' = "running"
    /\ isAnimating' = TRUE
    /\ UNCHANGED <<elapsed, animationDuration, treeCameraPhase, returnElapsed>>

\* part_004:504-525
PortalStartCinematic ==
    /\ virtualCameraEntity' = "portal"
    /\ activeCinematicCamera' = "portal"
    /\ animationType' = "portal"
    /\ elapsed' = 0
    /\ animationDuration' = 3000
    /\ isAnimating' = TRUE
    /\ UNCHANGED <<treeCameraPhase, returnElapsed>>

---------------------------------------------------------------------------
(* landingCamera.startCinematic(), part_004:377-421 *)

LandingStartCinematic ==
    /\ virtualCameraEntity' = "landing"
    /\ activeCinematicCamera' = "landing"
    /\ isAnimating' = TRUE
    /\ animationType' = "landing"
    /\ elapsed' = 0
    /\ animationDuration' = 3000
    /\ UNCHANGED <<treeCameraPhase, returnElapsed>>

\* the callback of a setTimeout(() => landingCamera.startCinematic(), ...),
\* index.ts:1093-1096, 1218-1221, 1260-1263, 1325-1328
LandingTimeout(i) ==
    /\ IsDue(i, "landing")
    /\ timers' = RemoveAt(timers, i)
    /\ LandingStartCinematic
    /\ UNCHANGED <<config, portalVars, libraryVars, playerPos, formatVars,
                   zoneTest,
                   sinceTreeStart, stageVars, treeTriggerUsed, npcTriggerUsed,
                   kersplatVars>>

---------------------------------------------------------------------------
(* The kersplat fall zones, index.ts:1187-1338: two trigger boxes with an  *)
(* enter-callback each, and the continuous position check.  movePlayerTo   *)
(* asks the host to move the player: the position the scene reads changes  *)
(* when the host has done it.                                              *)

\* at most this many respawn actions are followed
MaxRespawns == 2

KersplatCooldownMs == 3000

RespawnPoint == [x |-> 1680, y |-> 800, z |-> 160]

\* the trigger boxes of index.ts:1197 and 1240
KersplatTriggerSize(zone) ==
    IF zone = 1 THEN [x |-> 1400, y |-> 10, z |-> 1600]
                ELSE [x |-> 500, y |-> 5, z |-> 500]

KersplatTriggerPos(zone) == IF zone = 1 THEN Zone1Pos ELSE Zone2Pos

InKersplatTrigger(zone, p) ==
    /\ 2 * Abs(p.x - KersplatTriggerPos(zone).x) <= KersplatTriggerSize(zone).x
    /\ 2 * Abs(p.y - KersplatTriggerPos(zone).y) <= KersplatTriggerSize(zone).y
    /\ 2 * Abs(p.z - KersplatTriggerPos(zone).z) <= KersplatTriggerSize(zone).z

\* in zone 1, in zone 2, in zone 2 of the position check but above its
\* trigger box, and where a respawn puts the player
FallPositions ==
    { Zone1Pos, Zone2Pos, [x |-> 1680, y |-> 125, z |-> -240], RespawnPoint }

\* sound, image and movePlayerTo of a respawn, index.ts:1202-1215,
\* 1244-1257, 1312-1322
KersplatRespawn(by) ==
    /\ Len(respawns) < MaxRespawns
    /\ respawns' = Append(respawns, [by |-> by, gap |-> sinceRespawn])
    /\ sinceRespawn' = 0
    /\ moveRequest' = RespawnPoint

\* the trigger system finds the player entering a kersplat trigger box and
\* runs its enter-callback, index.ts:1193-1225 and 1236-1267
KersplatZoneEnter(zone) ==
    /\ pc = "running"
    /\ zone \notin insideKersplat
    /\ InKersplatTrigger(zone, playerPos)
    /\ insideKersplat' = insideKersplat \cup {zone}
    /\ Len(timers) < MaxTimers
    /\ KersplatRespawn(IF zone = 1 THEN "zone1" ELSE "zone2")
    /\ timers' = SetTimeout(timers, "landing", 3100)
    /\ UNCHANGED <<config, portalVars, libraryVars, playerPos, formatVars,
                   zoneTest,
                   sinceTreeStart, stageVars,
                   cameraVars, kersplatCooldown>>

\* the trigger system finds the player gone from a kersplat trigger box
KersplatZoneExit(zone) ==
    /\ pc = "running"
    /\ zone \in insideKersplat
    /\ ~InKersplatTrigger(zone, playerPos)
    /\ insideKersplat' = insideKersplat \ {zone}
    /\ UNCHANGED <<config, portalVars, libraryVars, playerPos, formatVars,
                   zoneTest,
                   sinceTreeStart, stageVars,
                   cameraVars, kersplatCooldown, moveRequest, respawns,
                   sinceRespawn, timers>>

\* the continuous position check finding the player in a zone,
\* index.ts:1273-1337
KersplatScan ==
    /\ pc = "running"
    /\ ~kersplatCooldown
    /\ InKersplatZone1(playerPos) \/ InKersplatZone2(playerPos)
    /\ kersplatCooldown' = TRUE
    /\ Len(timers) + 2 <= MaxTimers
    /\ KersplatRespawn("scan")
    /\ timers' = SetTimeout(SetTimeout(timers, "landing", 3000),
                            "cooldown", KersplatCooldownMs)
    /\ UNCHANGED <<config, portalVars, libraryVars, playerPos, formatVars,
                   zoneTest,
                   sinceTreeStart, stageVars,
                   cameraVars, insideKersplat>>

\* the callback of the setTimeout of index.ts:1333-1336
CooldownTimeout(i) ==
    /\ IsDue(i, "cooldown")
    /\ timers' = RemoveAt(timers, i)
    /\ kersplatCooldown' = FALSE
    /\ UNCHANGED <<config, portalVars, libraryVars, playerPos, formatVars,
                   zoneTest,
                   sinceTreeStart, stageVars,
                   cameraVars, insideKersplat, moveRequest, respawns,
                   sinceRespawn>>

\* the host carries out the last movePlayerTo
HostMovesPlayer ==
    /\ moveRequest # NoMove
    /\ playerPos' = moveRequest
    /\ moveRequest' = NoMove
    /\ UNCHANGED <<config, portalVars, libraryVars, formatVars, zoneTest,
                   sinceTreeStart, stageVars, cameraVars,
                   kersplatCooldown, insideKersplat, respawns, sinceRespawn,
                   timers>>

\* the player walks or falls
PlayerFalls(p) ==
    /\ pc = "running"
    /\ p # playerPos
    /\ playerPos' = p
    /\ UNCHANGED <<config, portalVars, besidePortal>>

KersplatInit ==
    /\ PortalAside
    /\ FormatIdle
    /\ zoneTest = NoZoneTest
    /\ SceneInitial
    /\ BurnInitial
    /\ LibrariesIdle

KersplatNext ==
    \/ Main(LAUNCH_START_TIME, LAUNCH_START_TIME)
    \/ \E zone \in {1, 2} : KersplatZoneEnter(zone)
    \/ \E zone \in {1, 2} : KersplatZoneExit(zone)
    \/ KersplatScan
    \/ \E i \in 1..MaxTimers : CooldownTimeout(i)
    \/ \E i \in 1..MaxTimers : LandingTimeout(i)
    \/ HostMovesPlayer
    \/ \E p \in FallPositions : PlayerFalls(p)
    \/ \E d \in FrameLengths : Advance(d)

SpecKersplat == KersplatInit /\ [][KersplatNext]_vars

\* C15: two qualifying fall events (the player's position being inside a
\* kersplat zone) within 3 s of each other produce exactly one respawn
\* action, whichever path finds them, the continuous position check or one
\* of the two zone-enter callbacks: no respawn action is made less than
\* 3000 ms after the one before it.
C15_OneRespawnPerCooldown ==
    \A i \in 1..Len(respawns) :
        i > 1 => respawns[i].gap >= KersplatCooldownMs

---------------------------------------------------------------------------
(* The camera animation system, the camera triggers, the dialogs that call *)
(* the camera functions, and their timers.                                 *)

\* what no camera, trigger or dialog operation touches
offstage == <<config, portalVars, libraryVars, formatVars, zoneTest,
              kersplatCooldown, insideKersplat, respawns, sinceRespawn>>

\* at most this many setTimeout callbacks of the cameras and dialogs are
\* pending at once
MaxCameraTimers == 2

TiltDuration == 1500

OrbitDuration == 7400

ReturnDuration == 2000

PanDuration == 3000

\* returnProgress >= 1 read from returnStartTime; this one reads it from
\* animationStartTime
ReturnComplete_fromAnimationStart == elapsed >= ReturnDuration

\* part_004:144-145, 162
ReturnComplete == returnElapsed >= ReturnDuration

\* the tilt never handing over to the hold on its own account
TiltComplete_early == elapsed >= 0

\* part_004:111, 125
TiltComplete == elapsed >= TiltDuration

\* one run of the camera animation system, part_004:100-223
AnimationTick ==
    /\ pc = "running"
    /\ isAnimating
    /\ animationType # "null"
    /\ IF animationType = "tree" /\ treeCameraPhase = "tilt"
       THEN /\ treeCameraPhase' = IF TiltComplete THEN "hold" ELSE "tilt"
            /\ UNCHANGED <<virtualCameraEntity, activeCinematicCamera,
                           isAnimating, elapsed, animationDuration,
                           animationType, returnElapsed>>
       ELSE IF animationType = "tree" /\ treeCameraPhase = "orbit"
       THEN /\ isAnimating' = (elapsed < OrbitDuration)
            /\ UNCHANGED <<virtualCameraEntity, activeCinematicCamera, elapsed,
                           animationDuration, animationType, treeCameraPhase,
                           returnElapsed>>
       ELSE IF animationType = "tree" /\ treeCameraPhase = "return"
                 /\ ReturnComplete
       THEN /\ virtualCameraEntity' = "undefined"
            /\ activeCinematicCamera' = "null"
            /\ isAnimating' = FALSE
            /\ animationType' = "null"
            /\ treeCameraPhase' = "tilt"
            /\ UNCHANGED <<elapsed, animationDuration, returnElapsed>>
       ELSE IF animationType = "landing" /\ elapsed >= PanDuration
       THEN resetToDefaultCamera
       ELSE UNCHANGED cameraCore
    /\ UNCHANGED <<offstage, playerPos, moveRequest, sinceTreeStart, stageVars,
                   treeTriggerUsed, npcTriggerUsed, timers>>

\* enter-callback of the tree camera trigger, part_004:545-560
TreeZoneEnter ==
    /\ pc = "running"
    /\ ~treeCameraActive /\ ~treeTriggerUsed
    /\ treeCameraActive' = TRUE
    /\ treeTriggerUsed' = TRUE
    /\ TreeStartCinematic
    /\ sinceTreeStart' = 0
    /\ UNCHANGED <<offstage, playerPos, moveRequest, portalCameraActive,
                   npcCameraActive, runningCameraActive, inPortalZone,
                   secondWarningShown, treeDialog, welcomeDialogOpen,
                   npcTriggerUsed, timers>>

\* enter-callback of the tree's dialog trigger, npcSystem (part_003:114-131)
TreeDialogOpen ==
    /\ pc = "running"
    /\ ~secondWarningShown
    /\ secondWarningShown' = TRUE
    /\ treeDialog' = "beforeAltar"
    /\ UNCHANGED <<offstage, playerPos, moveRequest, cameraVars, sinceTreeStart,
                   treeCameraActive, portalCameraActive, npcCameraActive,
                   runningCameraActive, inPortalZone, welcomeDialogOpen,
                   timers>>

\* the player closes page 2 of treeWarningDialog, the page before the
\* altar is named: triggeredByNext of dialogs (part_001:136-139).  The
\* other pages' callbacks but the last only play a sound.
AltarPageShown ==
    /\ pc = "running"
    /\ treeDialog = "beforeAltar"
    /\ treeDialog' = "afterAltar"
    /\ startTreeCameraOrbit
    /\ UNCHANGED <<offstage, playerPos, moveRequest, sinceTreeStart,
                   treeTriggerUsed, npcTriggerUsed, treeCameraActive,
                   portalCameraActive, npcCameraActive, runningCameraActive,
                   inPortalZone, secondWarningShown, welcomeDialogOpen, timers>>

\* the player closes the last page of treeWarningDialog: triggeredByNext of
\* dialogs (part_001:165-174)
TreeDialogEnds ==
    /\ pc = "running"
    /\ treeDialog = "afterAltar"
    /\ treeDialog' = "closed"
    /\ Len(timers) < MaxCameraTimers
    /\ timers' = SetTimeout(timers, "treeDialogReset", 1000)
    /\ UNCHANGED <<offstage, playerPos, moveRequest, cameraVars, sinceTreeStart,
                   treeCameraActive, portalCameraActive, npcCameraActive,
                   runningCameraActive, inPortalZone, secondWarningShown,
                   welcomeDialogOpen>>

\* the player enters the NPC's box: enter-callbacks of the NPC camera
\* trigger (part_004:604-619) and of the dialog trigger (part_003:174-185),
\* two triggers with the same box
NpcZoneEnter ==
    /\ pc = "running"
    /\ IF ~npcCameraActive /\ ~npcTriggerUsed
       THEN /\ npcCameraActive' = TRUE
            /\ npcTriggerUsed' = TRUE
            /\ NpcStartCinematic
       ELSE UNCHANGED <<npcCameraActive, npcTriggerUsed, cameraCore>>
    /\ welcomeDialogOpen' = TRUE
    /\ UNCHANGED <<offstage, playerPos, moveRequest, sinceTreeStart,
                   treeTriggerUsed, treeCameraActive, portalCameraActive,
                   runningCameraActive, inPortalZone, secondWarningShown,
                   treeDialog, timers>>

\* the player closes the last page of welcomeDialog: triggeredByNext of
\* dialogs (part_001:221-230); the other pages' callbacks only play a sound
WelcomeDialogEnds ==
    /\ pc = "running"
    /\ welcomeDialogOpen
    /\ welcomeDialogOpen' = FALSE
    /\ Len(timers) < MaxCameraTimers
    /\ timers' = SetTimeout(timers, "welcomeDialogReset", 1000)
    /\ UNCHANGED <<offstage, playerPos, moveRequest, cameraVars, sinceTreeStart,
                   treeCameraActive, portalCameraActive, npcCameraActive,
                   runningCameraActive, inPortalZone, secondWarningShown,
                   treeDialog>>

\* enter-callback of the portal camera trigger, part_004:571-583
PortalZoneEnter ==
    /\ pc = "running"
    /\ ~inPortalZone
    /\ inPortalZone' = TRUE
    /\ IF ~portalCameraActive
       THEN /\ portalCameraActive' = TRUE
            /\ PortalStartCinematic
       ELSE UNCHANGED <<portalCameraActive, cameraCore>>
    /\ UNCHANGED <<offstage, playerPos, moveRequest, sinceTreeStart,
                   treeTriggerUsed, npcTriggerUsed, treeCameraActive,
                   npcCameraActive, runningCameraActive, secondWarningShown,
                   treeDialog, welcomeDialogOpen, timers>>

\* exit-callback of the portal camera trigger, part_004:584-592
PortalZoneExit ==
    /\ pc = "running"
    /\ inPortalZone
    /\ inPortalZone' = FALSE
    /\ IF portalCameraActive
       THEN /\ resetToDefaultCamera
            /\ portalCameraActive' = FALSE
       ELSE UNCHANGED <<portalCameraActive, cameraCore>>
    /\ UNCHANGED <<offstage, playerPos, moveRequest, sinceTreeStart,
                   treeTriggerUsed, npcTriggerUsed, treeCameraActive,
                   npcCameraActive, runningCameraActive, secondWarningShown,
                   treeDialog, welcomeDialogOpen, timers>>

\* enter-callback of the running camera trigger, part_004:631-649, with
\* the setTimeout of runningCamera.startCinematic (part_004:465-467)
RunningZoneEnter ==
    /\ pc = "running"
    /\ ~runningCameraActive
    /\ runningCameraActive' = TRUE
    /\ RunningStartCinematic
    /\ Len(timers) + 2 <= MaxCameraTimers
    /\ timers' = SetTimeout(SetTimeout(timers, "runningReset", 3000),
                            "runningFlag", 8000)
    /\ UNCHANGED <<offstage, playerPos, moveRequest, sinceTreeStart,
                   treeTriggerUsed, npcTriggerUsed, treeCameraActive,
                   portalCameraActive, npcCameraActive, inPortalZone,
                   secondWarningShown, treeDialog, welcomeDialogOpen>>

\* enter-callback of the return teleport, index.ts:1066-1097
ReturnTeleport ==
    /\ pc = "running"
    /\ resetTreeCamera
    /\ moveRequest' = RespawnPoint
    /\ Len(timers) < MaxCameraTimers
    /\ timers' = SetTimeout(timers, "landing", 3500)
    /\ UNCHANGED <<offstage, playerPos, sinceTreeStart, treeTriggerUsed,
                   npcTriggerUsed, stageVars>>

\* the callback of the setTimeout of part_004:465-467
RunningResetTimeout(i) ==
    /\ IsDue(i, "runningReset")
    /\ timers' = RemoveAt(timers, i)
    /\ resetToDefaultCamera
    /\ UNCHANGED <<offstage, playerPos, moveRequest, sinceTreeStart,
                   treeTriggerUsed, npcTriggerUsed, stageVars>>

\* the callback of the setTimeout of part_004:643-646
RunningFlagTimeout(i) ==
    /\ IsDue(i, "runningFlag")
    /\ timers' = RemoveAt(timers, i)
    /\ runningCameraActive' = FALSE
    /\ UNCHANGED <<offstage, playerPos, moveRequest, cameraVars, sinceTreeStart,
                   treeCameraActive, portalCameraActive, npcCameraActive,
                   inPortalZone, secondWarningShown, treeDialog,
                   welcomeDialogOpen>>

\* the callback of the setTimeout that ends a dialog, dialogs
\* (part_001:171-173 and 227-229)
DialogResetTimeout(i) ==
    /\ IsDue(i, "treeDialogReset") \/ IsDue(i, "welcomeDialogReset")
    /\ timers' = RemoveAt(timers, i)
    /\ resetTreeCamera
    /\ UNCHANGED <<offstage, playerPos, moveRequest, sinceTreeStart,
                   treeTriggerUsed, npcTriggerUsed, stageVars>>

CameraInit ==
    /\ PortalAside
    /\ FormatIdle
    /\ zoneTest = NoZoneTest
    /\ SceneInitial
    /\ BurnInitial
    /\ LibrariesIdle

CameraNext ==
    \/ Main(LAUNCH_START_TIME, LAUNCH_START_TIME)
    \/ AnimationTick
    \/ TreeZoneEnter
    \/ TreeDialogOpen
    \/ AltarPageShown
    \/ TreeDialogEnds
    \/ NpcZoneEnter
    \/ WelcomeDialogEnds
    \/ PortalZoneEnter
    \/ PortalZoneExit
    \/ RunningZoneEnter
    \/ ReturnTeleport
    \/ \E i \in 1..MaxTimers : RunningResetTimeout(i)
    \/ \E i \in 1..MaxTimers : RunningFlagTimeout(i)
    \/ \E i \in 1..MaxTimers : DialogResetTimeout(i)
    \/ \E i \in 1..MaxTimers : LandingTimeout(i)
    \/ \E d \in FrameLengths : Advance(d)

SpecCamera == CameraInit /\ [][CameraNext]_vars

---------------------------------------------------------------------------
(* Properties of the camera sequences *)

\* C16: in the tree sequence the phases are entered only in the order
\* TILT -> HOLD -> ORBIT -> RETURN: HOLD is entered only from TILT, by the
\* animation system and only when 1500 ms have passed since the sequence
\* started; ORBIT is entered only from HOLD and only by the call
\* startTreeCameraOrbit (made when the altar page of the dialog is shown),
\* never by elapsed time; the phase goes back to TILT only when the camera
\* is released; and a startTreeCameraOrbit call made in any phase other
\* than HOLD, or while another sequence type is active, changes no state of
\* the camera.
C16_TreePhaseOrder ==
    [][/\ (treeCameraPhase # "hold" /\ treeCameraPhase' = "hold") =>
            /\ animationType = "tree" /\ treeCameraPhase = "tilt"
            /\ AnimationTick
            /\ sinceTreeStart >= 1500
       /\ (treeCameraPhase # "orbit" /\ treeCameraPhase' = "orbit") =>
            /\ animationType = "tree" /\ treeCameraPhase = "hold"
            /\ AltarPageShown
       /\ (treeCameraPhase # "return" /\ treeCameraPhase' = "return") =>
            animationType = "tree"
       /\ (treeCameraPhase # "tilt" /\ treeCameraPhase' = "tilt") =>
            animationType' = "null"
       /\ (AltarPageShown
             /\ ~(animationType = "tree" /\ treeCameraPhase = "hold")) =>
            UNCHANGED cameraVars
      ]_vars

\* the orbit has just been started by the altar page
C16_Witness ==
    /\ animationType = "tree"
    /\ treeCameraPhase = "orbit"
    /\ treeDialog = "afterAltar"
    /\ elapsed = 0
    /\ sinceTreeStart >= 1500

\* a call of resetTreeCamera: the return teleport or the end of a dialog
CallsResetTreeCamera ==
    ReturnTeleport \/ \E i \in 1..MaxTimers : DialogResetTimeout(i)

\* the camera given back to the player, everything as at load
ResetState ==
    /\ virtualCameraEntity = "undefined"
    /\ activeCinematicCamera = "null"
    /\ ~isAnimating
    /\ animationType = "null"
    /\ treeCameraPhase = "tilt"

\* C17: resetTreeCamera called while the tree sequence is in ORBIT, at any
\* orbit progress and also after the orbit has finished and the animation
\* has stopped, switches the phase to RETURN at once; the return then runs
\* for 2000 ms measured from that call, whatever the time since
\* animationStartTime, and ends by releasing the camera.
C17_ReturnPreemptsOrbit ==
    [][/\ (CallsResetTreeCamera /\ animationType = "tree"
             /\ treeCameraPhase = "orbit") =>
            /\ treeCameraPhase' = "return"
            /\ isAnimating'
            /\ returnElapsed' = 0
            /\ animationType' = "tree"
            /\ virtualCameraEntity' = "tree"
       /\ (AnimationTick /\ animationType = "tree"
             /\ treeCameraPhase = "return") =>
            IF returnElapsed >= 2000
            THEN /\ virtualCameraEntity' = "undefined"
                 /\ activeCinematicCamera' = "null"
                 /\ animationType' = "null"
            ELSE UNCHANGED cameraVars
      ]_vars

\* the return has begun after the orbit had run its 7400 ms
C17_Witness ==
    /\ animationType = "tree"
    /\ treeCameraPhase = "return"
    /\ isAnimating
    /\ returnElapsed = 0
    /\ elapsed >= OrbitDuration

\* a call of resetToDefaultCamera: the portal trigger's exit, the running
\* camera's timer, or the landing pan completing
CallsResetToDefaultCamera ==
    \/ PortalZoneExit /\ portalCameraActive
    \/ \E i \in 1..MaxTimers : RunningResetTimeout(i)
    \/ AnimationTick /\ animationType = "landing" /\ elapsed >= PanDuration

\* C18: whenever a camera sequence terminates (the tree RETURN completing,
\* or resetToDefaultCamera / resetTreeCamera called while a non-tree camera
\* is active) the state is the reset state: virtual camera unbound,
\* activeCinematicCamera = null, isAnimating = false, animationType = null,
\* treeCameraPhase = 'tilt'; a reset call is accepted in any phase and
\* leaves the tree sequence either terminated or returning.
C18_TerminationResets ==
    /\ [](animationType = "null" => ResetState)
    /\ [][/\ (AnimationTick /\ animationType = "tree"
                /\ treeCameraPhase = "return" /\ returnElapsed >= 2000) =>
               ResetState'
          /\ ((CallsResetTreeCamera \/ CallsResetToDefaultCamera)
                /\ animationType \notin {"tree", "null"}) =>
               ResetState'
          /\ ((CallsResetTreeCamera \/ CallsResetToDefaultCamera)
                /\ animationType = "tree") =>
               \/ ResetState'
               \/ /\ animationType' = "tree"
                  /\ treeCameraPhase' = "return"
                  /\ isAnimating'
         ]_vars

\* the tree sequence has run to its end: dialog closed, camera released
C18_Witness ==
    /\ ResetState
    /\ treeTriggerUsed
    /\ treeDialog = "closed"
    /\ secondWarningShown
    /\ returnElapsed >= 2000
    /\ timers = <<>>

\* C19: every PORTAL, NPC, RUNNING or LANDING sequence that holds the camera
\* releases it at its own exit event and not before: LANDING when its
\* 3000 ms pan completes, RUNNING when its 3000 ms timer fires, PORTAL when
\* the player leaves the portal zone or takes the return teleport, NPC when
\* its dialog ends.
C19_ReleasedAtOwnExit ==
    [][(virtualCameraEntity # "undefined"
          /\ virtualCameraEntity' = "undefined") =>
         /\ animationType = "landing" =>
              (AnimationTick /\ elapsed >= 3000)
         /\ animationType = "running" =>
              \E i \in 1..MaxTimers : RunningResetTimeout(i)
         /\ animationType = "portal" =>
              (PortalZoneExit \/ ReturnTeleport)
         /\ animationType = "npc" =>
              \E i \in 1..MaxTimers :
                  IsDue(i, "welcomeDialogReset") /\ DialogResetTimeout(i)
      ]_vars

---------------------------------------------------------------------------
(* The NFT burn module, burnModule/nftBurner.ts. burnNFT (1123-1295) is an *)
(* async function: burnPc names the await the call is suspended at, and   *)
(* each action runs the call from one await to the next.                  *)
(* getUserAddress, createEthereumProvider, provider.sendAsync and         *)
(* waitForTransactionConfirmation are the host's and the chain's: their   *)
(* outcomes are inputs, the calls made to them are recorded.              *)

\* at most this many burnNFT calls are made
MaxBurns == 2

\* frame lengths seen by the systems that delay() installs
BurnFrameLengths == {1000, 1500}

\* Date.now() is followed up to this value
MaxBurnClock == 6000

\* nftBurner.ts:1143
SimulateDelay == 2000

\* nftBurner.ts:1147
ConfirmDelay == 3000

\* the userConfig given to initNFTBurnSystem may leave testMode out
UserTestModes == {"absent", "true", "false"}

\* what the burn module's operations leave alone
besideBurn == <<config, portalVars, playerPos, formatVars, zoneTest,
                sceneVars, metaVars, gateVars, cacheVars, modalVars>>

\* if (onStatusChange) onStatusChange(status)
Report(status) ==
    IF onStatusChange THEN Append(statuses, status) ELSE statuses

\* return { success, txHash }
Return(success, txHash) ==
    /\ burnResult' = [success |-> success, txHash |-> txHash]
    /\ burnPc' = "returned"

\* nftBurner.ts:85-95, config = { ...config, ...userConfig }; main calls it
\* once, before any entity is made burnable (index.ts:613-623)
initNFTBurnSystem(userTestMode) ==
    /\ ~burnInitialised
    /\ burnInitialised' = TRUE
    /\ testMode' = IF userTestMode = "absent" THEN testMode
                   ELSE userTestMode = "true"
    /\ UNCHANGED <<besideBurn, waitVars, burnPc, onStatusChange, statuses,
                   addressRequests, providersCreated, sent, pollsStarted,
                   burnResult, delayElapsed, burnClock, burns>>

\* burnNFT(nft, onStatusChange?) up to await getPlayerWearables(),
\* nftBurner.ts:1123-1132
BurnCall(withCallback) ==
    /\ burnInitialised
    /\ burnPc \in {"idle", "returned"}
    /\ burns < MaxBurns
    /\ burns' = burns + 1
    /\ onStatusChange' = withCallback
    /\ statuses' = <<>>
    /\ burnPc' = "getPlayerWearables"
    /\ UNCHANGED <<besideBurn, waitVars, testMode, burnInitialised, addressRequests,
                   providersCreated, sent, pollsStarted, burnResult,
                   delayElapsed, burnClock>>

BurnBranch_asksAddressFirst ==
    /\ burnPc = "getPlayerWearables"
    /\ addressRequests' = addressRequests + 1
    /\ IF testMode
         THEN /\ statuses' = Report("Simulating transaction...")
              /\ delayElapsed' = 0
              /\ burnPc' = "delay2000"
         ELSE /\ burnPc' = "getUserAddress"
              /\ UNCHANGED <<statuses, delayElapsed>>
    /\ UNCHANGED <<besideBurn, waitVars, testMode, burnInitialised, onStatusChange,
                   providersCreated, sent, pollsStarted, burnResult,
                   burnClock, burns>>

\* getPlayerWearables() has resolved (it never rejects, 995-1007):
\* if (config.testMode), nftBurner.ts:1135-1143 and 1161
BurnBranch ==
    /\ burnPc = "getPlayerWearables"
    /\ IF testMode
         THEN /\ statuses' = Report("Simulating transaction...")
              /\ delayElapsed' = 0
              /\ burnPc' = "delay2000"
              /\ UNCHANGED addressRequests
         ELSE /\ addressRequests' = addressRequests + 1
              /\ burnPc' = "getUserAddress"
              /\ UNCHANGED <<statuses, delayElapsed>>
    /\ UNCHANGED <<besideBurn, waitVars, testMode, burnInitialised, onStatusChange,
                   providersCreated, sent, pollsStarted, burnResult,
                   burnClock, burns>>

\* Date.now() after a frame of d ms
ClockAfter(d) == Min(burnClock + d, MaxBurnClock)

\* delay(ms), nftBurner.ts:17-31: the promise resolves in the first frame
\* whose Date.now() - startTime >= ms
DelayDone(ms, now) == now >= ms

\* a frame of d ms while delay(2000) is pending, then nftBurner.ts:1145-1147
SimulateDelayFrame(d) ==
    /\ burnPc = "delay2000"
    /\ burnClock' = ClockAfter(d)
    /\ IF DelayDone(SimulateDelay, delayElapsed + d)
         THEN /\ statuses' = Report("Confirming transaction...")
              /\ delayElapsed' = 0
              /\ burnPc' = "delay3000"
         ELSE /\ delayElapsed' = delayElapsed + d
              /\ UNCHANGED <<statuses, burnPc>>
    /\ UNCHANGED <<besideBurn, waitVars, testMode, burnInitialised, onStatusChange,
                   addressRequests, providersCreated, sent, pollsStarted,
                   burnResult, burns>>

\* a frame of d ms while delay(3000) is pending, then nftBurner.ts:1149-1158:
\* the txHash is '0xtest' + Date.now()
ConfirmDelayFrame(d) ==
    /\ burnPc = "delay3000"
    /\ burnClock' = ClockAfter(d)
    /\ IF DelayDone(ConfirmDelay, delayElapsed + d)
         THEN /\ statuses' =
                    Report("Transaction confirmed! Burn complete.")
              /\ pollsStarted' = pollsStarted + 1
              /\ Return(TRUE, [prefix |-> "0xtest", stamp |-> burnClock'])
              /\ delayElapsed' = 0
         ELSE /\ delayElapsed' = delayElapsed + d
              /\ UNCHANGED <<statuses, pollsStarted, burnResult, burnPc>>
    /\ UNCHANGED <<besideBurn, waitVars, testMode, burnInitialised, onStatusChange,
                   addressRequests, providersCreated, sent, burns>>

\* the hash the wallet gives to a real transaction
WalletHash == [prefix |-> "0x", stamp |-> 0]

\* what the real path leaves alone besides what each step names
realPathKeeps == <<besideBurn, testMode, burnInitialised, onStatusChange,
                   addressRequests, delayElapsed, burnClock, burns>>

\* getUserAddress() has resolved, nftBurner.ts:1161-1179
UserAddressResolved(found) ==
    /\ burnPc = "getUserAddress"
    /\ IF found
         THEN /\ providersCreated' = providersCreated + 1
              /\ burnPc' = "createEthereumProvider"
              /\ UNCHANGED burnResult
         ELSE /\ Return(FALSE, NoHash)
              /\ UNCHANGED providersCreated
    /\ UNCHANGED <<realPathKeeps, waitVars, statuses, sent, pollsStarted>>

\* createEthereumProvider() has resolved or rejected, nftBurner.ts:1179-1196
\* and 1279-1291
ProviderResolved(ok) ==
    /\ burnPc = "createEthereumProvider"
    /\ IF ok
         THEN /\ statuses' = Report("Connecting to Polygon...")
              /\ sent' = Append(sent, "wallet_switchEthereumChain")
              /\ burnPc' = "switchChain"
              /\ UNCHANGED burnResult
         ELSE /\ Return(FALSE, NoHash)
              /\ UNCHANGED <<statuses, sent>>
    /\ UNCHANGED <<realPathKeeps, waitVars, providersCreated, pollsStarted>>

\* safeTransferFrom is prepared and sent, nftBurner.ts:1222-1251
SendBurnTransaction ==
    /\ statuses' = Report("Awaiting wallet signature...")
    /\ sent' = Append(sent, "eth_sendTransaction")
    /\ burnPc' = "sendTransaction"

\* wallet_switchEthereumChain has answered, nftBurner.ts:1197-1220: only
\* error 4902 adds the network, any other error is dropped
SwitchResolved(outcome) ==
    /\ burnPc = "switchChain"
    /\ IF outcome = "4902"
         THEN /\ sent' = Append(sent, "wallet_addEthereumChain")
              /\ burnPc' = "addChain"
              /\ UNCHANGED statuses
         ELSE SendBurnTransaction
    /\ UNCHANGED <<realPathKeeps, waitVars, providersCreated, pollsStarted,
                   burnResult>>

\* wallet_addEthereumChain has answered, nftBurner.ts:1201-1218: its error
\* leaves the catch block and ends the call at 1279-1291
AddChainResolved(ok) ==
    /\ burnPc = "addChain"
    /\ IF ok
         THEN /\ SendBurnTransaction
              /\ UNCHANGED burnResult
         ELSE /\ Return(FALSE, NoHash)
              /\ UNCHANGED <<statuses, sent>>
    /\ UNCHANGED <<realPathKeeps, waitVars, providersCreated, pollsStarted>>

\* nftBurner.ts:961, maxAttempts: number = 60
MaxAttempts == 60

\* nftBurner.ts:976, the pause between two receipt queries
ReceiptPollDelay == 2000

\* what eth_getTransactionReceipt can answer: no receipt yet, a mined receipt
\* with status 0x1, a mined receipt with another status, or the RPC call
\* throws (makeRpcCall, 380-399)
ReceiptOutcomes == {"pending", "mined0x1", "minedFailed", "throws"}

\* for (attempt = 0; attempt < maxAttempts; attempt++), nftBurner.ts:965 and
\* 988-989: the next query, or false when all attempts are used
NextAttempt ==
    /\ attempt' = attempt + 1
    /\ IF attempt + 1 < MaxAttempts
         THEN /\ receiptQueries' = receiptQueries + 1
              /\ burnPc' = "eth_getTransactionReceipt"
              /\ UNCHANGED confirmed
         ELSE /\ confirmed' = FALSE
              /\ burnPc' = "confirmationReturned"
              /\ UNCHANGED receiptQueries

\* eth_sendTransaction has answered, nftBurner.ts:1237-1261 and 1279-1291;
\* on success waitForTransactionConfirmation makes its first query (961-967)
TransactionResolved(ok) ==
    /\ burnPc = "sendTransaction"
    /\ IF ok
         THEN /\ statuses' = Report("Transaction submitted! Confirming...")
              /\ burnPc' = "eth_getTransactionReceipt"
              /\ attempt' = 0
              /\ receiptQueries' = 1
              /\ lastReceipt' = "none"
              /\ confirmed' = FALSE
              /\ UNCHANGED burnResult
         ELSE /\ Return(FALSE, NoHash)
              /\ UNCHANGED <<statuses, waitVars>>
    /\ UNCHANGED <<realPathKeeps, providersCreated, sent, pollsStarted>>

ReceiptConfirms_anyMined(outcome) == outcome \in {"mined0x1", "minedFailed"}

\* receipt.status === '0x1', nftBurner.ts:973
ReceiptConfirms(outcome) == outcome = "mined0x1"

\* eth_getTransactionReceipt has answered, nftBurner.ts:966-985
ReceiptResolved(outcome) ==
    /\ burnPc = "eth_getTransactionReceipt"
    /\ lastReceipt' = outcome
    /\ CASE outcome \in {"mined0x1", "minedFailed"} ->
              /\ confirmed' = ReceiptConfirms(outcome)
              /\ burnPc' = "confirmationReturned"
              /\ UNCHANGED <<attempt, receiptQueries, delayElapsed>>
         [] outcome = "pending" ->
              /\ delayElapsed' = 0
              /\ burnPc' = "receiptDelay"
              /\ UNCHANGED <<attempt, receiptQueries, confirmed>>
         [] outcome = "throws" ->
              /\ NextAttempt
              /\ UNCHANGED delayElapsed
    /\ UNCHANGED <<besideBurn, testMode, burnInitialised, onStatusChange,
                   statuses, addressRequests, providersCreated, sent,
                   pollsStarted, burnResult, burnClock, burns>>

\* a frame of d ms while the delay(2000) of nftBurner.ts:976 is pending
ReceiptDelayFrame(d) ==
    /\ burnPc = "receiptDelay"
    /\ burnClock' = ClockAfter(d)
    /\ IF DelayDone(ReceiptPollDelay, delayElapsed + d)
         THEN /\ NextAttempt
              /\ delayElapsed' = 0
         ELSE /\ delayElapsed' = delayElapsed + d
              /\ UNCHANGED <<attempt, receiptQueries, confirmed, burnPc>>
    /\ UNCHANGED <<besideBurn, testMode, burnInitialised, onStatusChange,
                   statuses, addressRequests, providersCreated, sent,
                   pollsStarted, burnResult, burns, lastReceipt>>

\* waitForTransactionConfirmation(txHash) has returned, nftBurner.ts:1261-1277
ConfirmationResolved ==
    /\ burnPc = "confirmationReturned"
    /\ IF confirmed
         THEN /\ statuses' =
                    Report("Transaction confirmed! Burn complete.")
              /\ pollsStarted' = pollsStarted + 1
              /\ Return(TRUE, WalletHash)
         ELSE /\ statuses' = Report("Transaction timeout")
              /\ Return(FALSE, WalletHash)
              /\ UNCHANGED pollsStarted
    /\ UNCHANGED <<realPathKeeps, waitVars, providersCreated, sent>>

BurnInit ==
    /\ PortalAside
    /\ FormatIdle
    /\ zoneTest = NoZoneTest
    /\ SceneInitial
    /\ BurnInitial
    /\ LibrariesIdle

BurnNext ==
    \/ \E userTestMode \in UserTestModes : initNFTBurnSystem(userTestMode)
    \/ \E withCallback \in BOOLEAN : BurnCall(withCallback)
    \/ BurnBranch
    \/ \E d \in BurnFrameLengths : SimulateDelayFrame(d)
    \/ \E d \in BurnFrameLengths : ConfirmDelayFrame(d)
    \/ \E found \in BOOLEAN : UserAddressResolved(found)
    \/ \E ok \in BOOLEAN : ProviderResolved(ok)
    \/ \E outcome \in {"ok", "4902", "error"} : SwitchResolved(outcome)
    \/ \E ok \in BOOLEAN : AddChainResolved(ok)
    \/ \E ok \in BOOLEAN : TransactionResolved(ok)
    \/ \E outcome \in ReceiptOutcomes : ReceiptResolved(outcome)
    \/ \E d \in BurnFrameLengths : ReceiptDelayFrame(d)
    \/ ConfirmationResolved

SpecBurn == BurnInit /\ [][BurnNext]_vars

\* the statuses of a simulated burn, nftBurner.ts:1142-1149
TestStatuses ==
    <<"Simulating transaction...", "Confirming transaction...",
      "Transaction confirmed! Burn complete.">>

\* C20: with testMode = true, burnNFT never asks for a wallet address, never
\* creates an Ethereum provider and never sends anything through one; what it
\* passes to the status callback is, in this order, 'Simulating
\* transaction...', 'Confirming transaction...', 'Transaction confirmed! Burn
\* complete.'; and it returns success = true with a transaction hash that
\* starts with '0xtest'.
C20_TestModeBurnIsSimulated ==
    testMode =>
      /\ addressRequests = 0
      /\ providersCreated = 0
      /\ sent = <<>>
      /\ Len(statuses) <= Len(TestStatuses)
      /\ statuses = SubSeq(TestStatuses, 1, Len(statuses))
      /\ burnPc = "delay2000" =>
             statuses = (IF onStatusChange THEN SubSeq(TestStatuses, 1, 1)
                           ELSE <<>>)
      /\ burnPc = "delay3000" =>
             statuses = (IF onStatusChange THEN SubSeq(TestStatuses, 1, 2)
                           ELSE <<>>)
      /\ burnPc = "returned" =>
             /\ statuses = (IF onStatusChange THEN TestStatuses ELSE <<>>)
             /\ burnResult.success
             /\ burnResult.txHash.prefix = "0xtest"

\* a second simulated burn has returned, the callback has its three statuses
C20_Witness ==
    /\ testMode
    /\ burns = MaxBurns
    /\ burnPc = "returned"
    /\ onStatusChange
    /\ statuses = TestStatuses
    /\ burnResult.success
    /\ burnResult.txHash.prefix = "0xtest"
    /\ pollsStarted = MaxBurns

\* C21: waitForTransactionConfirmation ends after at most maxAttempts receipt
\* queries: it asks at most MaxAttempts times, and every step it takes either
\* returns, starts the next attempt, or brings its 2000 ms pause nearer to its
\* end. It returns true only on a mined receipt with status 0x1, returns false
\* at once on a mined receipt with another status, and returns false when all
\* attempts are used; a burnNFT call outside test mode returns success = true
\* only after the confirmation returned true.
C21_ConfirmationBoundedAndStrict ==
    /\ [](/\ receiptQueries <= MaxAttempts
          /\ burnPc \in {"eth_getTransactionReceipt", "receiptDelay"} =>
               /\ attempt < MaxAttempts
               /\ receiptQueries = attempt + 1
          /\ burnPc = "confirmationReturned" =>
               /\ confirmed => lastReceipt = "mined0x1"
               /\ lastReceipt = "minedFailed" => ~confirmed
               /\ attempt = MaxAttempts => ~confirmed
          /\ (~testMode /\ burnPc = "returned" /\ burnResult.success) =>
               (confirmed /\ lastReceipt = "mined0x1"))
    /\ [][/\ (burnPc = "eth_getTransactionReceipt"
                /\ lastReceipt' = "minedFailed") =>
               (burnPc' = "confirmationReturned" /\ ~confirmed')
          /\ burnPc = "eth_getTransactionReceipt" =>
               \/ burnPc' = "confirmationReturned"
               \/ attempt' = attempt + 1
               \/ burnPc' = "receiptDelay" /\ attempt' = attempt
          /\ burnPc = "receiptDelay" =>
               \/ burnPc' = "confirmationReturned"
               \/ attempt' = attempt + 1
               \/ /\ burnPc' = "receiptDelay"
                  /\ attempt' = attempt
                  /\ delayElapsed < delayElapsed'
                  /\ delayElapsed' < ReceiptPollDelay
         ]_vars

\* all sixty attempts were used, some on pauses and the last on an RPC error
C21_Witness ==
    /\ burnPc = "confirmationReturned"
    /\ attempt = MaxAttempts
    /\ receiptQueries = MaxAttempts
    /\ lastReceipt = "throws"
    /\ burnClock > 0
    /\ ~confirmed

---------------------------------------------------------------------------
(* The collection initialisers, nftBurner.ts:103-335. An image is a record *)
(* [kind, ref]: a file of the scene, the thumbnail URL of Decentraland's   *)
(* content server for a URN, or undefined. What the remote sources answer  *)
(* is part of the call.                                                    *)

Undefined == [kind |-> "undefined", ref |-> ""]

File(path) == [kind |-> "file", ref |-> path]

\* 'images/doge.png', nftBurner.ts:130, 287, 297 and 321
DefaultImage == File("images/doge.png")

\* a URN is the sequence of its parts between the colons
CollectionUrn(address, tokenId) ==
    <<"urn", "decentraland", "matic", "collections-v2", address, tokenId>>

\* `https://peer.decentraland.org/lambdas/collections/contents/${urn}/thumbnail`
DclThumbnail(urn) == [kind |-> "dclThumbnail", ref |-> urn]

\* parseURN, nftBurner.ts:154-169: null unless the URN has six parts or more
\* of which the first two are urn and decentraland
parseURN(urn) ==
    IF Len(urn) >= 6 /\ urn[1] = "urn" /\ urn[2] = "decentraland"
    THEN [parsed |-> TRUE, address |-> urn[5], tokenId |-> urn[6]]
    ELSE [parsed |-> FALSE, address |-> "", tokenId |-> ""]

\* a || b on values of which only Undefined is falsy
OrElse(a, b) == IF a = Undefined THEN b ELSE a

\* fallbackImages && fallbackImages[i], nftBurner.ts:130 and 321; i counts
\* from 1 here
FallbackAt(fallbackImages, i) ==
    IF fallbackImages.given /\ i <= Len(fallbackImages.images)
    THEN fallbackImages.images[i]
    ELSE Undefined

\* fetchCollectionName, nftBurner.ts:493-512: the name, or undefined when
\* name() answers nothing or the RPC call throws
fetchCollectionName(nameAnswer) ==
    IF nameAnswer = "named" THEN "remote name" ELSE "undefined"

\* fetchCollectionMetadata, nftBurner.ts:405-488: the first try block always
\* returns (409-426), with the thumbnail URL built from the address, so the
\* contractURI and tokenURI queries after it are never made
fetchCollectionMetadata(address, nameAnswer) ==
    [name |-> fetchCollectionName(nameAnswer),
     image |-> DclThumbnail(CollectionUrn(address, "0"))]

\* contractAddresses.filter(addr => addr && addr.trim() !== ''), line 110
RECURSIVE ValidAddresses(_)
ValidAddresses(addresses) ==
    IF addresses = <<>> THEN <<>>
    ELSE IF Head(addresses) = ""
         THEN ValidAddresses(Tail(addresses))
         ELSE <<Head(addresses)>> \o ValidAddresses(Tail(addresses))

\* initCollectionsFromContracts, nftBurner.ts:103-149
initCollectionsFromContracts(contractAddresses, fallbackImages, nameAnswer) ==
    LET validAddresses == ValidAddresses(contractAddresses)
    IN  [i \in 1..Len(validAddresses) |->
           LET metadata == fetchCollectionMetadata(validAddresses[i],
                                                   nameAnswer)
               fallbackImage == OrElse(FallbackAt(fallbackImages, i),
                                       DefaultImage)
           IN  [type |-> "collection",
                address |-> validAddresses[i],
                title |-> IF metadata.name = "undefined"
                          THEN "Collection i" ELSE metadata.name,
                imageUrl |-> OrElse(metadata.image, fallbackImage)]]

\* what the content server and the standard ERC721 endpoint can answer to
\* initCollectionFromURN: a body with a name, a body without one, a status
\* that is not OK, or the fetch throws
EndpointAnswers == {"named", "unnamed", "notOk", "throws"}

\* lines 202-246 of initCollectionFromURN: whether the two endpoints give a
\* name; the standard endpoint is asked only when the content server's status
\* is not OK
EndpointsGiveName(content, standard) ==
    \/ content = "named"
    \/ content = "notOk" /\ standard = "named"

\* initCollectionFromURN, nftBurner.ts:177-303: the list of the one
\* CollectionInfo it returns, empty when it returns null. Every branch of
\* 202-272 sets image to the thumbnail URL; fetchNFTMetadata (686-740)
\* catches its own errors, so the catch of 278-284 is not entered
initCollectionFromURN(urn, fallbackImage, content, standard, tokenURI) ==
    LET parsed == parseURN(urn)
        dclImageUrl == DclThumbnail(urn)
        metadata ==
          IF EndpointsGiveName(content, standard)
          THEN [name |-> "remote name", image |-> dclImageUrl]
          ELSE IF tokenURI = "named"
               THEN [name |-> "token name", image |-> dclImageUrl]
               ELSE [name |-> "Token #id", image |-> dclImageUrl]
    IN  IF ~parsed.parsed THEN <<>>
        ELSE <<[type |-> "urn",
                address |-> parsed.address,
                title |-> metadata.name,
                imageUrl |-> OrElse(metadata.image,
                                    OrElse(fallbackImage, DefaultImage))]>>

\* at most this many contract addresses are given to one call
MaxAddresses == 2

AddressLists ==
    UNION {[1..n -> {"", "0xa", "0xb"}] : n \in 1..MaxAddresses}

\* the fallbackImages argument: left out, or a list
FallbackLists ==
    {[given |-> FALSE, images |-> <<>>],
     [given |-> TRUE, images |-> <<>>],
     [given |-> TRUE, images |-> <<File("images/a.png")>>],
     [given |-> TRUE,
      images |-> <<File("images/a.png"), File("images/b.png")>>]}

ContractCalls ==
    [kind : {"contracts"}, contractAddresses : AddressLists,
     fallbackImages : FallbackLists,
     nameAnswer : {"named", "empty", "throws"}]

UrnCalls ==
    [kind : {"urn"},
     urn : {CollectionUrn("0xa", "7"), <<"urn", "other", "0xa">>},
     fallbackImage : {Undefined, File("images/a.png")},
     content : EndpointAnswers, standard : EndpointAnswers,
     tokenURI : {"named", "fails"}]

\* what the collection initialisers leave alone
besideMeta == <<config, portalVars, playerPos, formatVars, zoneTest,
                sceneVars, burnVars, gateVars, cacheVars, modalVars>>

MetaInit ==
    /\ PortalAside
    /\ FormatIdle
    /\ zoneTest = NoZoneTest
    /\ SceneInitial
    /\ BurnInitial
    /\ GateInitial
    /\ CacheInitial
    /\ ModalInitial
    /\ enableCollectionSelection = FALSE
    /\ metaCall \in ContractCalls \cup UrnCalls
    /\ metaPc = "idle"
    /\ collections = <<>>

CallInitCollectionsFromContracts ==
    /\ metaPc = "idle"
    /\ metaCall.kind = "contracts"
    /\ collections' = initCollectionsFromContracts(
                          metaCall.contractAddresses,
                          metaCall.fallbackImages, metaCall.nameAnswer)
    /\ metaPc' = "done"
    /\ UNCHANGED <<besideMeta, metaCall>>

CallInitCollectionFromURN ==
    /\ metaPc = "idle"
    /\ metaCall.kind = "urn"
    /\ collections' = initCollectionFromURN(
                          metaCall.urn, metaCall.fallbackImage,
                          metaCall.content, metaCall.standard,
                          metaCall.tokenURI)
    /\ metaPc' = "done"
    /\ UNCHANGED <<besideMeta, metaCall>>

MetaNext ==
    \/ CallInitCollectionsFromContracts
    \/ CallInitCollectionFromURN

SpecMetadata == MetaInit /\ [][MetaNext]_vars

\* every remote source of the call fails or answers nothing
AllSourcesFail ==
    IF metaCall.kind = "contracts"
    THEN metaCall.nameAnswer # "named"
    ELSE /\ metaCall.content # "named"
         /\ metaCall.standard # "named"
         /\ metaCall.tokenURI # "named"

\* the place in contractAddresses of the i-th address that is not empty
OriginalIndex(addresses, i) ==
    CHOOSE j \in 1..Len(addresses) :
        /\ addresses[j] # ""
        /\ Cardinality({k \in 1..j : addresses[k] # ""}) = i

\* the image the caller supplied as fallback for entry i, else the default
SuppliedFallback(i) ==
    IF metaCall.kind = "contracts"
    THEN OrElse(FallbackAt(metaCall.fallbackImages,
                           OriginalIndex(metaCall.contractAddresses, i)),
                DefaultImage)
    ELSE OrElse(metaCall.fallbackImage, DefaultImage)

\* C22: when every remote metadata source fails for a collection address or
\* URN, the imageUrl of the resulting CollectionInfo is the fallback image the
\* caller supplied for that entry, or the default image when none was
\* supplied.
C22_FallbackImageWhenSourcesFail ==
    (metaPc = "done" /\ AllSourcesFail) =>
        \A i \in 1..Len(collections) :
            collections[i].imageUrl = SuppliedFallback(i)

---------------------------------------------------------------------------
(* The name gate and the paths that move the player to the altar,         *)
(* index.ts:979-1048, 1393-1411, 1496-1531 and 1550-1568. movePlayerTo is  *)
(* taken to move the player at once. A trigger callback runs when the      *)
(* player comes into the trigger's box from outside.                      *)

\* at most this many name checks are awaited at once
MaxPendingNameChecks == 1

\* index.ts:1030 and 1554, the box of the teleport trigger, in tenths of a
\* metre
TeleportTriggerSize == 20

\* the teleport trigger sits where the instant-teleport zone does,
\* index.ts:1020 and 1381
InTeleportTrigger(p) ==
    /\ 2 * Abs(p.x - InstantZonePos.x) <= TeleportTriggerSize
    /\ 2 * Abs(p.y - InstantZonePos.y) <= TeleportTriggerSize
    /\ 2 * Abs(p.z - InstantZonePos.z) <= TeleportTriggerSize

\* what the name gate and the trigger callbacks leave alone
besideGate == <<config, portalVars, formatVars, zoneTest, sceneVars,
                burnVars, metaVars, cacheVars, modalVars>>

\* the enter callback of nameGateZone starts a check, index.ts:981-990
NameGateEnter ==
    /\ pc = "running"
    /\ nameCheckPending < MaxPendingNameChecks
    /\ nameCheckPending' = nameCheckPending + 1
    /\ UNCHANGED <<besideGate, playerPos, playerHasNameApproved>>

\* await checkCurrentPlayerHasName() has resolved, index.ts:991-1011
NameCheckResolved(hasName) ==
    /\ nameCheckPending > 0
    /\ nameCheckPending' = nameCheckPending - 1
    /\ playerHasNameApproved' = hasName
    /\ UNCHANGED <<besideGate, playerPos>>

\* the player walks into the 2x2x2 teleport trigger while its volume is
\* enabled: every callback registered on triggerZone runs, index.ts:1031-1046
\* and 1555-1566
TeleportTriggerEnter ==
    /\ pc = "running"
    /\ triggerListeners # <<>>
    /\ triggerZoneScale = TriggerOpenScale
    /\ ~InTeleportTrigger(playerPos)
    /\ playerPos' = IF playerHasNameApproved THEN AltarDestination
                                             ELSE InstantZonePos
    /\ UNCHANGED <<besideGate, gateVars>>

\* the player walks into the 8x8x8 instant-teleport zone, index.ts:1393-1411
InstantZoneEnter ==
    /\ pc = "running"
    /\ systemInstalled
    /\ ~InInstantZone(playerPos)
    /\ playerPos' = IF instantTeleportCheckActive THEN AltarDestination
                                                  ELSE InstantZonePos
    /\ UNCHANGED <<besideGate, gateVars>>

TeleportInit ==
    /\ ROCKSCAPE_PORTAL_SHUTDOWN = FALSE
    /\ LAUNCH_START_TIME \in StartTimes
    /\ LAUNCH_END_TIME = 0
    /\ PortalNotStarted
    /\ playerPos \in PlayerPositions
    /\ FormatIdle
    /\ zoneTest = NoZoneTest
    /\ SceneInitial
    /\ BurnInitial
    /\ LibrariesIdle

\* the player walks, but reaches the altar by movePlayerTo only
TeleportNext ==
    \/ \E now \in NowValues : \E later \in NowValues :
           later >= now /\ Main(now, later)
    \/ \E dt \in DtValues : \E now \in NowValues :
           \E nowShould \in LaterRead(now) : Tick(dt, now, nowShould)
    \/ InstantTeleportTimeout
    \/ \E p \in PlayerPositions \ {AltarDestination} : PlayerMoves(p)
    \/ NameGateEnter
    \/ \E hasName \in BOOLEAN : NameCheckResolved(hasName)
    \/ TeleportTriggerEnter
    \/ InstantZoneEnter

SpecTeleport == TeleportInit /\ [][TeleportNext]_vars

\* C23: every step that moves the player to the altar destination (entry into
\* the teleport trigger, entry into the instant-teleport zone, the poll-based
\* instant teleport of the tick in which the window opens) is taken with the
\* portal active, at the latest at the end of that step, and with
\* playerHasNameApproved = true.
C23_TeleportOnlyWhenApproved ==
    [][(playerPos' = AltarDestination /\ playerPos # AltarDestination) =>
          /\ isPortalActive \/ isPortalActive'
          /\ playerHasNameApproved
      ]_vars

---------------------------------------------------------------------------
\* C24: the activation and deactivation side effects are edge-triggered: a
\* tick whose evaluator output equals isPortalActive leaves isPortalActive,
\* triggerAdded, the portal's scale, the trigger's scale and the countdown
\* entity's scale as they were, and registers no trigger listener
\* (index.ts:1536-1588).
C24_NoEdgeNoSideEffect ==
    [][(frame'.kind = "tick" /\ frame'.shouldBeActive = isPortalActive) =>
          UNCHANGED <<isPortalActive, triggerAdded, portalScale,
                      triggerZoneScale, countdownScale, triggerListeners>>
      ]_vars

\* a tick that ran to its end on an open portal that was built active, with
\* the evaluator still saying active
C24_Witness ==
    /\ frame.kind = "tick"
    /\ frame.acted
    /\ frame.shouldBeActive
    /\ frame.wasActive
    /\ isPortalActive
    /\ constructedActive
    /\ ~triggerAdded
    /\ Len(triggerListeners) = 1

---------------------------------------------------------------------------
\* C27: a delayed release scheduled for one camera sequence changes the
\* camera's state only while that same sequence holds the camera: the
\* running camera's 3000 ms timer only under animationType = 'running', the
\* tree dialog's 1000 ms timer only under 'tree', the welcome dialog's
\* 1000 ms timer only under 'npc', the portal zone's exit callback only
\* under 'portal'.
C27_ReleaseOnlyByHolder ==
    [][/\ ((\E i \in 1..MaxTimers : RunningResetTimeout(i))
              /\ cameraCore' # cameraCore) => animationType = "running"
       /\ ((\E i \in 1..MaxTimers :
               IsDue(i, "treeDialogReset") /\ DialogResetTimeout(i))
              /\ cameraCore' # cameraCore) => animationType = "tree"
       /\ ((\E i \in 1..MaxTimers :
               IsDue(i, "welcomeDialogReset") /\ DialogResetTimeout(i))
              /\ cameraCore' # cameraCore) => animationType = "npc"
       /\ (PortalZoneExit /\ cameraCore' # cameraCore) =>
              animationType = "portal"
      ]_vars

\* C29: in every reachable state of the camera system activeCinematicCamera
\* is null exactly when animationType is null, and isAnimating = true only
\* with a camera active (animationType not null).
C29_CameraStateConsistent ==
    /\ (activeCinematicCamera = "null") <=> (animationType = "null")
    /\ isAnimating => animationType # "null"

\* the running camera holds the camera after the tree sequence was released
\* by another sequence's timer, with a timer still pending
C29_Witness ==
    /\ activeCinematicCamera = "running"
    /\ animationType = "running"
    /\ isAnimating
    /\ treeTriggerUsed
    /\ timers # <<>>

---------------------------------------------------------------------------
(* checkDecentralandNameOwnership and its cache, nameGate.ts. The function *)
(* is async: a call is suspended at the fetch of the Graph API, then at    *)
(* the fetch of the NFT API, and other calls run in between. JavaScript    *)
(* values are written as strings: "true", "false", "0", "undefined".       *)

\* what the name-ownership functions leave alone
besideCache == <<config, portalVars, playerPos, formatVars, zoneTest,
                 sceneVars, burnVars, metaVars, gateVars, modalVars>>

\* the Graph API's answers: fetch rejects, status not OK, json() rejects,
\* a body without names, a body with names (nameGate.ts:49-72)
GraphAnswers == {"throws", "notOk", "badJson", "noNames", "names"}

\* the NFT API's answers: fetch or json() rejects, status not OK, or a body
\* with data (absent, empty, some) and total (absent, 0, 1)
NftBodies == [data : {"absent", "empty", "some"}, total : {"absent", "0", "1"}]

\* (nftData.data && nftData.data.length > 0) || (nftData.total &&
\* nftData.total > 0), nameGate.ts:88: || gives its right operand when the
\* left one is undefined or false, && gives its left operand when that is
\* undefined or 0
NftHasName(body) ==
    IF body.data = "some" THEN "true"
    ELSE IF body.total = "absent" THEN "undefined"
    ELSE IF body.total = "0" THEN "0"
    ELSE "true"

\* the call that call number c's record is given when it returns
Returned(c, value) ==
    [nameChecks EXCEPT ![c].pc = "returned", ![c].result = value]

\* nameOwnershipCache.set, with the first value set since the last clear
\* remembered
CacheSet(key, value) ==
    /\ nameOwnershipCache' = [nameOwnershipCache EXCEPT ![key] = value]
    /\ onceCached' = IF onceCached[key] = "absent"
                     THEN [onceCached EXCEPT ![key] = value]
                     ELSE onceCached

\* a call, up to its return on a cache hit or to the fetch of the Graph API,
\* nameGate.ts:14-55
CheckCalled(c, userAddress) ==
    /\ nameChecks[c].pc = "notCalled"
    /\ c > 1 => nameChecks[c - 1].pc # "notCalled"
    /\ LET normalizedAddress == ToLowerCase(userAddress)
           cached == nameOwnershipCache[normalizedAddress]
       IN  nameChecks' =
             [nameChecks EXCEPT ![c] =
                IF cached # "absent"
                THEN [pc |-> "returned", address |-> normalizedAddress,
                      requests |-> 0, result |-> cached, held |-> cached]
                ELSE [pc |-> "graph", address |-> normalizedAddress,
                      requests |-> 1, result |-> "none", held |-> "absent"]]
    /\ UNCHANGED <<besideCache, nameOwnershipCache, onceCached>>

\* the Graph API has answered, nameGate.ts:57-78 and the catch of 104-108
GraphResolved(c, answer) ==
    /\ nameChecks[c].pc = "graph"
    /\ IF answer = "names"
       THEN /\ CacheSet(nameChecks[c].address, "true")
            /\ nameChecks' = Returned(c, "true")
       ELSE IF answer \in {"throws", "badJson"}
       THEN /\ nameChecks' = Returned(c, "false")
            /\ UNCHANGED <<nameOwnershipCache, onceCached>>
       ELSE /\ nameChecks' = [nameChecks EXCEPT ![c].pc = "nft",
                                 ![c].requests = @ + 1]
            /\ UNCHANGED <<nameOwnershipCache, onceCached>>
    /\ UNCHANGED besideCache

\* the NFT API has answered with a body, nameGate.ts:80-95
NftResolvedOk(c, body) ==
    /\ nameChecks[c].pc = "nft"
    /\ CacheSet(nameChecks[c].address, NftHasName(body))
    /\ nameChecks' = Returned(c, NftHasName(body))
    /\ UNCHANGED besideCache

\* the NFT API has failed: status not OK (96-102) or a rejection (104-108)
NftResolvedFailed(c) ==
    /\ nameChecks[c].pc = "nft"
    /\ nameChecks' = Returned(c, "false")
    /\ UNCHANGED <<besideCache, nameOwnershipCache, onceCached>>

\* nameGate.ts:151-154
clearNameOwnershipCache ==
    /\ nameOwnershipCache' = [k \in CacheKeys |-> "absent"]
    /\ onceCached' = [k \in CacheKeys |-> "absent"]
    /\ UNCHANGED <<besideCache, nameChecks>>

NameGateInit ==
    /\ PortalAside
    /\ FormatIdle
    /\ zoneTest = NoZoneTest
    /\ SceneInitial
    /\ BurnInitial
    /\ LibrariesIdle

NameGateNext ==
    \/ \E c \in 1..MaxNameChecks : \E a \in Addresses : CheckCalled(c, a)
    \/ \E c \in 1..MaxNameChecks : \E answer \in GraphAnswers :
           GraphResolved(c, answer)
    \/ \E c \in 1..MaxNameChecks : \E body \in NftBodies :
           NftResolvedOk(c, body)
    \/ \E c \in 1..MaxNameChecks : NftResolvedFailed(c)
    \/ clearNameOwnershipCache

SpecNameGate == NameGateInit /\ [][NameGateNext]_vars

\* a check returns false through a failure: both responses not OK, or a
\* rejection
FailureReturn(c) ==
    /\ nameChecks[c].pc \in {"graph", "nft"}
    /\ nameChecks'[c].pc = "returned"
    /\ nameChecks'[c].result = "false"

\* a failed check denies and caches nothing, and the check after it queries
\* again
DeniesOnFailure ==
    [][\A c \in 1..MaxNameChecks :
          /\ FailureReturn(c) =>
                UNCHANGED nameOwnershipCache
          /\ (nameChecks[c].pc = "notCalled" /\ nameChecks'[c].pc # "notCalled"
                /\ nameOwnershipCache[nameChecks'[c].address] = "absent") =>
                nameChecks'[c].requests = 1
      ]_vars

\* C26: checkDecentralandNameOwnership denies on failure (false returned,
\* nothing cached, the next check queries again), and a value once cached
\* for a lower-cased address is what every later check of that address
\* returns, with no network request, until clearNameOwnershipCache.
C26_DeniesOnFailureAndCacheHolds ==
    /\ DeniesOnFailure
    /\ [][\A c \in 1..MaxNameChecks : \A a \in Addresses :
             (CheckCalled(c, a) /\ onceCached[ToLowerCase(a)] # "absent") =>
                /\ nameChecks'[c].pc = "returned"
                /\ nameChecks'[c].result = onceCached[ToLowerCase(a)]
                /\ nameChecks'[c].requests = 0
        ]_vars

---------------------------------------------------------------------------
(* The burn modal and the click flows, nftBurner.ts:1301-1438 and          *)
(* 1636-2800. handleBurnClick, the collection callback and the BURN        *)
(* button's callback are async: burnTasks holds, for each one suspended,   *)
(* the await it is at. checkUserNFTs catches every error and answers with  *)
(* a list; burnNFT answers with a result after reporting statuses.         *)

\* at most this many pointer-down events on burnable entities
MaxClicks == 3

\* at most this many async calls are suspended at once
MaxTasks == 2

\* what the modal's operations leave alone
besideModal == <<config, portalVars, playerPos, formatVars, zoneTest,
                 sceneVars, burnVars, metaVars, gateVars, cacheVars,
                 enableCollectionSelection>>

\* what checkUserNFTs answers: an empty list or not
OwnedAnswers == {"none", "some"}

\* how burnNFT returns, with the last status it reported ("" for none):
\* success (nftBurner.ts:1149, 1265), no wallet address (1165), an error
\* thrown at the wallet signature (1234, 1279-1290), the confirmation
\* timing out (1275)
BurnOutcomes ==
    { [success |-> TRUE,  status |-> "Transaction confirmed! Burn complete."],
      [success |-> FALSE, status |-> ""],
      [success |-> FALSE, status |-> "Awaiting wallet signature..."],
      [success |-> FALSE, status |-> "Transaction timeout"] }

\* burnStatus.toLowerCase().includes('confirmed') ||
\* burnStatus.toLowerCase().includes('complete'), nftBurner.ts:2315
SaysConfirmedOrComplete(status) ==
    status = "Transaction confirmed! Burn complete."

\* nftBurner.ts:1692-1707
showCollectionSelectionModal(m) ==
    [m EXCEPT !.isModalVisible = TRUE, !.showCollectionSelection = TRUE,
              !.onCollectionSelectCallback = "set",
              !.hasCollectionSelection = TRUE, !.availableNFTs = "none",
              !.selectedNFT = "null", !.showConfirmation = FALSE,
              !.burnStatus = "", !.isProcessing = FALSE,
              !.isCompleted = FALSE, !.completedTxHash = "",
              !.isLoadingNFTs = FALSE]

\* nftBurner.ts:1709-1715
showLoadingNFTs(m) ==
    [m EXCEPT !.showCollectionSelection = FALSE, !.isLoadingNFTs = TRUE,
              !.showError = FALSE]

\* nftBurner.ts:1717-1729
showErrorModal(m) ==
    [m EXCEPT !.isModalVisible = TRUE, !.showCollectionSelection = FALSE,
              !.isLoadingNFTs = FALSE, !.showError = TRUE]

\* nftBurner.ts:1731-1745
showBurnModal(m, nfts) ==
    [m EXCEPT !.isModalVisible = TRUE, !.showCollectionSelection = FALSE,
              !.isLoadingNFTs = FALSE, !.showError = FALSE,
              !.availableNFTs = nfts, !.selectedNFT = "null",
              !.showConfirmation = FALSE, !.burnStatus = "",
              !.isProcessing = FALSE, !.isCompleted = FALSE,
              !.completedTxHash = "", !.onConfirmCallback = "set"]

\* nftBurner.ts:1773-1790
goBackToCollectionSelection(m) ==
    [m EXCEPT !.showCollectionSelection = TRUE, !.isLoadingNFTs = FALSE,
              !.showError = FALSE, !.availableNFTs = "none",
              !.selectedNFT = "null", !.showConfirmation = FALSE,
              !.burnStatus = "", !.isProcessing = FALSE,
              !.isCompleted = FALSE, !.completedTxHash = ""]

\* nftBurner.ts:1792-1794
isModalOpen == modal.isModalVisible

\* the views of BurnModalUI that carry buttons, each under the condition it
\* is rendered with; nothing is displayed unless isModalVisible (1856)
CollectionViewShown ==
    modal.isModalVisible /\ modal.showCollectionSelection

\* nftBurner.ts:2002 and 2704
SelectionViewShown ==
    /\ modal.isModalVisible
    /\ ~modal.showCollectionSelection /\ ~modal.showConfirmation
    /\ ~modal.isProcessing /\ ~modal.isCompleted
    /\ ~modal.showError /\ ~modal.isLoadingNFTs

\* nftBurner.ts:2090
ConfirmationViewShown ==
    /\ modal.isModalVisible
    /\ modal.showConfirmation /\ modal.selectedNFT # "null"
    /\ ~modal.isProcessing /\ ~modal.isCompleted

\* nftBurner.ts:2631
ErrorViewShown == modal.isModalVisible /\ modal.showError

\* nftBurner.ts:2484
CompletedViewShown == modal.isModalVisible /\ modal.isCompleted

\* the await at the head of a suspended call ends: the call is taken off
RemoveTask(i) ==
    [j \in 1..(Len(burnTasks) - 1) |->
        IF j < i THEN burnTasks[j] ELSE burnTasks[j + 1]]

\* the pointer-down callback of makeBurnable, handleBurnClick up to its
\* first await, nftBurner.ts:1301-1384 and 1421-1438
HandleBurnClick ==
    /\ clicks < MaxClicks
    /\ clicks' = clicks + 1
    /\ IF isModalOpen
       THEN UNCHANGED <<modal, burnTasks>>
       ELSE IF enableCollectionSelection
       THEN /\ modal' = showCollectionSelectionModal(modal)
            /\ UNCHANGED burnTasks
       ELSE /\ Len(burnTasks) < MaxTasks
            /\ burnTasks' = Append(burnTasks, "lookup")
            /\ UNCHANGED modal
    /\ UNCHANGED besideModal

\* await checkUserNFTs(defaultCollection) has resolved, 1384-1412
LookupResolved(i, owned) ==
    /\ i \in 1..Len(burnTasks)
    /\ burnTasks[i] = "lookup"
    /\ burnTasks' = RemoveTask(i)
    /\ modal' = IF owned = "none" THEN showErrorModal(modal)
                                  ELSE showBurnModal(modal, owned)
    /\ UNCHANGED <<besideModal, clicks>>

\* a collection card is pressed, 1962-1967, and the callback given to
\* showCollectionSelectionModal runs up to its await, 1324-1332
CollectionSelected ==
    /\ CollectionViewShown
    /\ modal.onCollectionSelectCallback # "null"
    /\ Len(burnTasks) < MaxTasks
    /\ modal' = showLoadingNFTs(modal)
    /\ burnTasks' = Append(burnTasks, "collectionLookup")
    /\ UNCHANGED <<besideModal, clicks>>

\* await checkUserNFTs(selectedCollection) has resolved, 1332-1373
CollectionLookupResolved(i, owned) ==
    /\ i \in 1..Len(burnTasks)
    /\ burnTasks[i] = "collectionLookup"
    /\ burnTasks' = RemoveTask(i)
    /\ modal' = IF owned = "none" THEN showErrorModal(modal)
                                  ELSE showBurnModal(modal, owned)
    /\ UNCHANGED <<besideModal, clicks>>

\* an NFT card is pressed: selectNFT, 1796-1799 and 2038
NFTSelected ==
    /\ SelectionViewShown
    /\ modal.availableNFTs = "some"
    /\ modal' = [modal EXCEPT !.selectedNFT = "nft", !.showConfirmation = TRUE]
    /\ UNCHANGED <<besideModal, burnTasks, clicks>>

\* the Back button of the confirmation view: goBack, 1801-1804 and 2275
BackPressed ==
    /\ ConfirmationViewShown
    /\ modal' = [modal EXCEPT !.selectedNFT = "null",
                              !.showConfirmation = FALSE]
    /\ UNCHANGED <<besideModal, burnTasks, clicks>>

\* the BURN button, up to the await of the confirm callback, which is at
\* the await of burnNFT, 2292-2301 and 1400-1403
BurnPressed ==
    /\ ConfirmationViewShown
    /\ IF modal.onConfirmCallback # "null" /\ modal.selectedNFT # "null"
       THEN /\ Len(burnTasks) < MaxTasks
            /\ modal' = [modal EXCEPT !.isProcessing = TRUE,
                                      !.burnStatus = "Initializing..."]
            /\ burnTasks' = Append(burnTasks, "burnNFT")
       ELSE UNCHANGED <<modal, burnTasks>>
    /\ UNCHANGED <<besideModal, clicks>>

\* the state the BURN button's callback leaves once the confirm callback has
\* returned result, 2306-2322
AfterConfirm(m, success) ==
    IF success
    THEN [m EXCEPT !.isProcessing = FALSE, !.isCompleted = TRUE,
                   !.completedTxHash = "0xhash"]
    ELSE IF SaysConfirmedOrComplete(m.burnStatus)
    THEN [m EXCEPT !.isProcessing = FALSE, !.isCompleted = TRUE]
    ELSE m

\* burnNFT has returned: on success the confirm callback goes on to await
\* checkUserNFTs (1404-1407), otherwise it returns and the button's
\* callback finishes
BurnResolved(i, outcome) ==
    /\ i \in 1..Len(burnTasks)
    /\ burnTasks[i] = "burnNFT"
    /\ LET reported == [modal EXCEPT !.selectedNFT = "nft",
                           !.burnStatus = IF outcome.status = "" THEN @
                                          ELSE outcome.status]
       IN  IF outcome.success
           THEN /\ modal' = reported
                /\ burnTasks' = [burnTasks EXCEPT ![i] = "refresh"]
           ELSE /\ modal' = AfterConfirm(reported, FALSE)
                /\ burnTasks' = RemoveTask(i)
    /\ UNCHANGED <<besideModal, clicks>>

\* the checkUserNFTs after a successful burn has resolved: the confirm
\* callback returns the result and the button's callback finishes
RefreshResolved(i) ==
    /\ i \in 1..Len(burnTasks)
    /\ burnTasks[i] = "refresh"
    /\ burnTasks' = RemoveTask(i)
    /\ modal' = AfterConfirm(modal, TRUE)
    /\ UNCHANGED <<besideModal, clicks>>

\* the Close button of the completed view (2624) or the Cancel button of the
\* collection view (2795)
ClosePressed ==
    /\ CompletedViewShown \/ CollectionViewShown
    /\ modal' = hideBurnModal
    /\ UNCHANGED <<besideModal, burnTasks, clicks>>

\* the button under the error view (2659-2665) or under the NFT selection
\* view (2732-2738)
BackOrClosePressed ==
    /\ ErrorViewShown \/ SelectionViewShown
    /\ modal' = IF modal.hasCollectionSelection
                THEN goBackToCollectionSelection(modal)
                ELSE hideBurnModal
    /\ UNCHANGED <<besideModal, burnTasks, clicks>>

ModalInit ==
    /\ PortalAside
    /\ FormatIdle
    /\ zoneTest = NoZoneTest
    /\ SceneInitial
    /\ BurnInitial
    /\ MetaIdle
    /\ GateInitial
    /\ CacheInitial
    /\ ModalInitial
    /\ enableCollectionSelection \in BOOLEAN

ModalNext ==
    \/ HandleBurnClick
    \/ \E i \in 1..MaxTasks : \E owned \in OwnedAnswers : LookupResolved(i, owned)
    \/ CollectionSelected
    \/ \E i \in 1..MaxTasks : \E owned \in OwnedAnswers :
           CollectionLookupResolved(i, owned)
    \/ NFTSelected
    \/ BackPressed
    \/ BurnPressed
    \/ \E i \in 1..MaxTasks : \E outcome \in BurnOutcomes : BurnResolved(i, outcome)
    \/ \E i \in 1..MaxTasks : RefreshResolved(i)
    \/ ClosePressed
    \/ BackOrClosePressed

SpecModal == ModalInit /\ [][ModalNext]_vars

\* C25: while a burn flow started by a click is in progress (the modal is
\* open or one of the flow's async calls is pending), a further click on a
\* burnable entity starts no second flow and changes no modal state, in the
\* collection-selection flow and in the default flow, also while the first
\* click's owned-NFT lookup is pending and the modal is not yet shown.
C25_ClicksIgnoredDuringFlow ==
    [][(clicks' = clicks + 1 /\ (isModalOpen \/ burnTasks # <<>>)) =>
          UNCHANGED <<modal, burnTasks>>
      ]_vars

\* a button whose handler closes the modal or goes back is rendered
CloseOrBackOffered ==
    \/ CompletedViewShown
    \/ CollectionViewShown
    \/ ErrorViewShown
    \/ SelectionViewShown
    \/ ConfirmationViewShown

\* C28: the burn modal never gets stuck: whenever the modal is open and no
\* asynchronous operation is pending, a close or back button is offered; in
\* particular after the burn callback has returned without success.
C28_ModalNeverStuck ==
    (isModalOpen /\ burnTasks = <<>>) => CloseOrBackOffered

=============================================================================
